---- MODULE Spec2Model ----
(***************************************************************************)
(* Verification model of dolphin-rs, the Discord <-> Minecraft chat        *)
(* bridge: the log line classifier with its UUID cache, the Minecraft      *)
(* format renderer, the line chunker and the Minecraft -> Discord          *)
(* delivery paths.                                                         *)
(*                                                                         *)
(* Strings are TLA+ strings; Len, \o and SubSeq act on them per character. *)
(***************************************************************************)
EXTENDS Integers, Sequences, FiniteSets, TLC

(***************************************************************************)
(* str primitives used by the classifier                                   *)
(***************************************************************************)

\* str::starts_with
StartsWith(s, p) ==
    /\ Len(p) <= Len(s)
    /\ SubSeq(s, 1, Len(p)) = p

\* the byte offsets (0-based) at which p occurs in s
Occurrences(s, p) ==
    { i \in 0..(Len(s) - Len(p)) : SubSeq(s, i + 1, i + Len(p)) = p }

\* str::contains
Contains(s, p) ==
    \E i \in 0..(Len(s) - Len(p)) : SubSeq(s, i + 1, i + Len(p)) = p

\* str::find: offset of the first occurrence, -1 standing for None
Find(s, p) ==
    LET occ == Occurrences(s, p)
    IN  IF occ = {} THEN -1
        ELSE CHOOSE i \in occ : \A j \in occ : i <= j

\* the text from 0-based offset i to the end (&s[i..])
From(s, i) == SubSeq(s, i + 1, Len(s))

\* the text before 0-based offset i (&s[..i])
Upto(s, i) == SubSeq(s, 1, i)

IsSpace(c) == c = " "

RECURSIVE TrimStart(_)
\* str::trim_start
TrimStart(s) ==
    IF Len(s) > 0 /\ IsSpace(SubSeq(s, 1, 1)) THEN TrimStart(From(s, 1)) ELSE s

RECURSIVE TrimEnd(_)
\* str::trim_end
TrimEnd(s) ==
    IF Len(s) > 0 /\ IsSpace(SubSeq(s, Len(s), Len(s)))
    THEN TrimEnd(Upto(s, Len(s) - 1)) ELSE s

\* str::trim
Trim(s) == TrimEnd(TrimStart(s))

RECURSIVE Split(_, _)
\* str::split(sep).collect(): the fields between the occurrences of the
\* one-character separator, empty fields included
Split(s, sep) ==
    LET i == Find(s, sep)
    IN  IF i = -1 THEN << s >>
        ELSE << Upto(s, i) >> \o Split(From(s, i + 1), sep)

\* the characters matched by \w
WordChars ==
    { "a","b","c","d","e","f","g","h","i","j","k","l","m","n","o","p","q",
      "r","s","t","u","v","w","x","y","z","A","B","C","D","E","F","G","H",
      "I","J","K","L","M","N","O","P","Q","R","S","T","U","V","W","X","Y",
      "Z","0","1","2","3","4","5","6","7","8","9","_" }

IsWord(c) == c \in WordChars

\* length of the longest run of \w characters that starts s
RECURSIVE WordRun(_)
WordRun(s) ==
    IF Len(s) > 0 /\ IsWord(SubSeq(s, 1, 1)) THEN 1 + WordRun(From(s, 1)) ELSE 0

\* length of the longest run of \w characters that ends s
RECURSIVE WordRunBack(_)
WordRunBack(s) ==
    IF Len(s) > 0 /\ IsWord(SubSeq(s, Len(s), Len(s)))
    THEN 1 + WordRunBack(Upto(s, Len(s) - 1)) ELSE 0


(***************************************************************************)
(* The UUID cache: HashMap<String, String>, kept as its set of entries     *)
(***************************************************************************)

\* HashMap::new
EmptyCache == {}

\* HashMap::contains_key
HasKey(cache, name) == \E e \in cache : e[1] = name

\* HashMap::get; only used when HasKey holds
Get(cache, name) == (CHOOSE e \in cache : e[1] = name)[2]

\* HashMap::insert: replaces the entry of the key
Insert(cache, name, uuid) ==
    { e \in cache : e[1] # name } \cup { << name, uuid >> }

\* HashMap::remove
Remove(cache, name) == { e \in cache : e[1] # name }

(***************************************************************************)
(* Messages and results of the classifier                                  *)
(***************************************************************************)

\* struct MinecraftMessage
Msg(name, content, source, uuid) ==
    [name |-> name, content |-> content, source |-> source, uuid |-> uuid]

NoMsg == Msg("", "", "-", "")

\* Option<MinecraftMessage>, and the unwinding of a panic
None == [tag |-> "None", msg |-> NoMsg]

Some(m) == [tag |-> "Some", msg |-> m]

Panic == [tag |-> "Panic", msg |-> NoMsg]

\* uuid used when the lookup by name fails
FALLBACK_UUID == "c06f8906-4c8a-4911-9c29-ea1dbd1aab82"

(***************************************************************************)
(* The configured chat pattern.  A pattern is a record: kind "angle" is    *)
(* ^<(\w+)> (.+) and kind "colon" is (\w+): (.+)$ ; username and content   *)
(* tell whether the first and the second group carry the names `username` *)
(* and `content`.                                                          *)
(***************************************************************************)

\* ^<(?P<username>\w+)> (?P<content>.+), the default of the configuration
VanillaRegex == [kind |-> "angle", username |-> TRUE, content |-> TRUE]

\* (?P<username>\w+): (?P<content>.+)$
CustomRegex == [kind |-> "colon", username |-> TRUE, content |-> TRUE]

\* ^<(\w+)> (?P<content>.+)
NoUsernameRegex == [kind |-> "angle", username |-> FALSE, content |-> TRUE]

\* ^<(?P<username>\w+)> (.+)
NoContentRegex == [kind |-> "angle", username |-> TRUE, content |-> FALSE]

\* offsets of a ": " that ends a run of \w and is followed by a character
ColonOffsets(line) ==
    { j \in Occurrences(line, ": ") :
        /\ j >= 1
        /\ IsWord(SubSeq(line, j, j))
        /\ Len(line) >= j + 3 }

\* Regex::captures: the leftmost match of the pattern in the line
Captures(re, line) ==
    IF re.kind = "angle"
    THEN LET w == WordRun(From(line, 1))
         IN  IF /\ StartsWith(line, "<")
                /\ w >= 1
                /\ Len(line) >= w + 4
                /\ SubSeq(line, w + 2, w + 3) = "> "
             THEN [matched |-> TRUE,
                   first |-> SubSeq(line, 2, w + 1),
                   second |-> From(line, w + 3)]
             ELSE [matched |-> FALSE, first |-> "", second |-> ""]
    ELSE IF ColonOffsets(line) = {}
         THEN [matched |-> FALSE, first |-> "", second |-> ""]
         ELSE LET j == CHOOSE i \in ColonOffsets(line) :
                           \A k \in ColonOffsets(line) : i <= k
                  w == WordRunBack(Upto(line, j))
              IN  [matched |-> TRUE,
                   first |-> SubSeq(line, j - w + 1, j),
                   second |-> From(line, j + 2)]

\* Regex::is_match
IsMatch(re, line) == Captures(re, line).matched


(***************************************************************************)
(* MessageParser                                                           *)
(***************************************************************************)

\* death_keywords of MessageParser::new, before the custom keywords
BuiltinDeathKeywords ==
    << " shot", " pricked", " walked into a cactus", " roasted", " drowned",
       " kinetic", " blew up", " blown up", " killed", " hit the ground",
       " fell", " doomed", " squashed", " magic", " flames", " burned",
       " walked into fire", " burnt", " bang", " tried to swim in lava",
       " lightning", "floor was lava", "danger zone", " slain",
       " fireballed", " stung", " starved", " suffocated", " squished",
       " poked", " imapled", "didn't want to live", " withered",
       " pummeled", " died", " slain", " obliterated" >>

\* ignore_phrases of MessageParser::new, before the custom phrases
BuiltinIgnorePhrases ==
    << "Found that the dragon has been killed in this world already." >>

\* trim_prefix without its test of the length of the line
trim_prefix_any_length(line) ==
    LET index == Find(line, "]: ")
    IN  IF ~StartsWith(line, "[") \/ index = -1
        THEN [some |-> FALSE, text |-> ""]
        ELSE [some |-> TRUE, text |-> From(line, index + 3)]

\* trim_prefix: the text after the first "]: ", None for an abnormal line.
\* line.len() is the length in bytes: "&" stands for a character of two
\* bytes, the section sign, and every other character of the lines is ASCII.
trim_prefix(line) ==
    LET index == Find(line, "]: ")
        len == Len(line) + Cardinality(Occurrences(line, "&"))
    IN  IF ~StartsWith(line, "[") \/ len < 11
        THEN [some |-> FALSE, text |-> ""]
        ELSE IF index = -1 THEN [some |-> FALSE, text |-> ""]
        ELSE [some |-> TRUE, text |-> From(line, index + 3)]

\* is_advancement
is_advancement(line) ==
    \/ Contains(line, "has made the advancement")
    \/ Contains(line, "has completed the challenge")
    \/ Contains(line, "has reached the goal")

RECURSIVE DeathScanNamingKeyword(_, _, _)
DeathScanNamingKeyword(keywords, line, message) ==
    IF keywords = << >> THEN message
    ELSE DeathScanNamingKeyword(Tail(keywords), line,
             IF Contains(line, Head(keywords))
             THEN Some(Msg("", ":skull:" \o Head(keywords) \o ": " \o line,
                           "Server", ""))
             ELSE message)

RECURSIVE DeathScan(_, _, _)
\* the keyword loop of try_parse_death: every keyword is tried and each
\* match overwrites the message
DeathScan(keywords, line, message) ==
    IF keywords = << >> THEN message
    ELSE DeathScan(Tail(keywords), line,
                   IF Contains(line, Head(keywords))
                   THEN Some(Msg("", ":skull: " \o line, "Server", ""))
                   ELSE message)

\* try_parse_death without its loop over the ignore phrases
try_parse_death_not_ignoring(ignore_phrases, death_keywords, line) ==
    DeathScan(death_keywords, line, None)

RECURSIVE try_parse_death(_, _, _)
\* MessageParser::try_parse_death
try_parse_death(ignore_phrases, death_keywords, line) ==
    IF \E i \in 1..Len(ignore_phrases) : Contains(line, ignore_phrases[i])
    THEN None
    ELSE IF StartsWith(line, "Named entity")
    THEN LET parts == Split(line, ":")
         IN  IF Len(parts) < 2 THEN None
             ELSE try_parse_death(ignore_phrases, death_keywords,
                                  TrimStart(parts[2]))
    ELSE DeathScan(death_keywords, line, None)

\* a response of uuid_from_name: Err, or Ok(IdResponse { name, id })
LookupErr == [ok |-> FALSE, name |-> "", id |-> ""]

LookupOk(name, id) == [ok |-> TRUE, name |-> name, id |-> id]

\* get_player_uuid that also caches the fallback uuid when the lookup fails
get_player_uuid_caching_fallback(cache, name, resp) ==
    IF HasKey(cache, name)
    THEN [ok |-> TRUE, uuid |-> Get(cache, name), cache |-> cache,
          asked |-> FALSE]
    ELSE IF resp.ok
    THEN [ok |-> TRUE, uuid |-> resp.id,
          cache |-> Insert(cache, resp.name, resp.id), asked |-> TRUE]
    ELSE [ok |-> FALSE, uuid |-> "",
          cache |-> Insert(cache, name, FALLBACK_UUID), asked |-> TRUE]

\* MessageParser::get_player_uuid; resp is what uuid_from_name answers when
\* it is asked.  Yields the Result, the cache and whether it was asked.
get_player_uuid(cache, name, resp) ==
    IF HasKey(cache, name)
    THEN [ok |-> TRUE, uuid |-> Get(cache, name), cache |-> cache,
          asked |-> FALSE]
    ELSE IF resp.ok
    THEN [ok |-> TRUE, uuid |-> resp.id,
          cache |-> Insert(cache, resp.name, resp.id), asked |-> TRUE]
    ELSE [ok |-> FALSE, uuid |-> "", cache |-> cache, asked |-> TRUE]

\* what parse_line and its callees yield: the returned Option (or the
\* panic), the cache afterwards and whether uuid_from_name was called
Outcome(result, cache, asked) ==
    [result |-> result, cache |-> cache, asked |-> asked]

\* try_parse_chat that gives up the message when the lookup fails
try_parse_chat_dropping(cache, re, line, resp) ==
    LET captures == Captures(re, line)
        name == captures.first
        content == captures.second
        uuid == get_player_uuid(cache, name, resp)
    IN  IF ~re.username \/ ~re.content
        THEN Outcome(Panic, cache, FALSE)
        ELSE IF ~uuid.ok THEN Outcome(None, uuid.cache, uuid.asked)
        ELSE Outcome(Some(Msg(name, content, "Player", uuid.uuid)),
                     uuid.cache, uuid.asked)

\* MessageParser::try_parse_chat
try_parse_chat(cache, re, line, resp) ==
    LET captures == Captures(re, line)
        name == captures.first
        content == captures.second
        uuid == get_player_uuid(cache, name, resp)
    IN  IF ~re.username \/ ~re.content
        THEN Outcome(Panic, cache, FALSE)
        ELSE Outcome(Some(Msg(name, content, "Player",
                              IF uuid.ok THEN uuid.uuid ELSE FALLBACK_UUID)),
                     uuid.cache, uuid.asked)

\* the join/leave arm without the eviction of the leaving player
JoinLeaveKeepingEntry(cache, line) ==
    Outcome(Some(Msg("", line, "Server", "")), cache, FALSE)

\* the join/leave arm of parse_line
JoinLeave(cache, line) ==
    LET end == Find(line, " ")
    IN  Outcome(Some(Msg("", line, "Server", "")),
                IF Contains(line, "left the game") /\ end # -1
                THEN Remove(cache, Upto(line, end))
                ELSE cache,
                FALSE)

\* the "UUID of player" arm reading each field one position too early
CacheUuidShifted(cache, line) ==
    LET parts == Split(line, " ")
    IN  IF Len(parts) < 6 THEN Outcome(Panic, cache, FALSE)
        ELSE Outcome(None, Insert(cache, parts[3], parts[5]), FALSE)

\* the "UUID of player" arm of parse_line
CacheUuid(cache, line) ==
    LET parts == Split(line, " ")
    IN  IF Len(parts) < 6 THEN Outcome(Panic, cache, FALSE)
        ELSE Outcome(None, Insert(cache, parts[4], parts[6]), FALSE)

\* MessageParser::parse_line
parse_line(cache, ignore_phrases, death_keywords, raw, re, resp) ==
    LET prefix == trim_prefix(raw)
        line == Trim(prefix.text)
    IN  IF ~prefix.some THEN Outcome(None, cache, FALSE)
        ELSE IF StartsWith(line, "Villager") /\ Contains(line, "died, message:")
        THEN Outcome(None, cache, FALSE)
        ELSE IF StartsWith(line, "UUID of player")
        THEN CacheUuid(cache, line)
        ELSE IF IsMatch(re, line)
        THEN try_parse_chat(cache, re, line, resp)
        ELSE IF Contains(line, "joined the game") \/ Contains(line, "left the game")
        THEN JoinLeave(cache, line)
        ELSE IF is_advancement(line)
        THEN Outcome(Some(Msg("", ":partying_face: " \o line, "Server", "")),
                     cache, FALSE)
        ELSE IF StartsWith(line, "Done (")
        THEN Outcome(Some(Msg("", ":white_check_mark: Server has started",
                              "Server", "")), cache, FALSE)
        ELSE IF StartsWith(line, "Stopping the server")
        THEN Outcome(Some(Msg("", ":x: Server is shutting down", "Server", "")),
                     cache, FALSE)
        ELSE Outcome(try_parse_death(ignore_phrases, death_keywords, line),
                     cache, FALSE)


(***************************************************************************)
(* Inputs of the log tailer                                                *)
(***************************************************************************)

\* most fragments joined into the content of one log line
MaxFrags == 2

\* player names; the profile service answers "bob" with the profile "Bob"
Names == { "Bob", "bob" }

UUIDs == { "id1", "id2" }

Fragments ==
    { "Bob", "bob", "<Bob>", "<bob>", "left the game", "joined the game",
      "UUID of player", "Villager", "died, message: 'ouch'",
      "has made the advancement", "Done (3s)!", "Stopping the server",
      "was slain" }

RECURSIVE Joined(_)
\* the texts made of 1..k fragments separated by single spaces
Joined(k) ==
    IF k <= 1 THEN Fragments
    ELSE Joined(k - 1) \cup { a \o " " \o f : a \in Joined(k - 1), f \in Fragments }

\* the server's "UUID of player <name> is <uuid>" lines
UuidLines ==
    { "UUID of player " \o n \o " is " \o u : n \in Names, u \in UUIDs }

\* a "UUID of player" text either is cut short or names a player and a uuid
UuidLineOk(c) ==
    LET parts == Split(c, " ")
    IN  \/ ~StartsWith(c, "UUID of player")
        \/ Len(parts) < 6
        \/ parts[4] \in Names /\ parts[6] \in UUIDs

Contents ==
    { c \in Joined(MaxFrags) : UuidLineOk(c) }
        \cup UuidLines
        \cup { u \o " " \o f : u \in UuidLines, f \in Fragments }

GoodPrefix == "[12:32:45] [Server thread/INFO]: "

\* no prefix, a line under 11 characters long, no "]: ", a padded prefix and
\* a prefix followed by a second "]: "
OddPrefixes ==
    { "", "[a]: ", "[12:32:45] ", "[12:32:45] [Server thread/INFO]:   ",
      "[12:32:45] [Server thread/INFO]: [x]: " }

\* the lines above and two lines of 10 characters, of 10 and of 11 bytes
RawLines ==
    { GoodPrefix \o c : c \in Contents }
        \cup { p \o c : p \in OddPrefixes, c \in Fragments \cup UuidLines }
        \cup { "[]: Done (", "[]: & fell" }

\* the chat patterns a configuration may hold
ChatRegexConfigs ==
    { VanillaRegex, CustomRegex, NoUsernameRegex, NoContentRegex }

\* what uuid_from_name may answer
Responses ==
    { LookupErr } \cup { LookupOk(n, u) : n \in Names, u \in UUIDs }

(***************************************************************************)
(* LogTailer::listen: the loop that reads a line, classifies it and sends  *)
(* the message                                                             *)
(***************************************************************************)
VARIABLES
    cached_uuids,   \* MessageParser.cached_uuids
    chat_regex,     \* config.get_chat_regex()
    raw_line,       \* the line log_watcher.next() yielded
    message,        \* what parse_line returned for raw_line
    response,       \* what uuid_from_name answered during that call
    asked,          \* whether uuid_from_name was called during that call
    cache_before,   \* cached_uuids when that call started
    pc,             \* position in the loop
    blocks,         \* the Block tree handed to to_minecraft_format
    rendered,       \* the string to_minecraft_format returned
    render_pc,      \* "input" before the call, "done" after it
    marked,         \* the lines handed to truncate_lines, as UTF-8 bytes
    truncated,      \* the chunks truncate_lines returned
    truncate_pc,    \* "input" before the call, "done" after it
    enable_webserver, \* config.enable_webserver()
    delivery,       \* per message, in the order of classification or
                    \* acceptance: where its send_to_discord call stands
    attempts,       \* per message: the calls of send_to_discord made for it
    tailer_pc,      \* position of the log tailer between two lines
    queue,          \* the messages in the mpsc channel, oldest first
    closed,         \* the receiver of the channel was dropped
    classified,     \* number of messages the producer classified so far
    producing,      \* the message the producer is sending, 0 for none
    current,        \* the message the consumer received, 0 for none
    dequeued,       \* the messages the consumer received, in order
    consumer_pc,    \* position of the consumer task
    handlers,       \* per Discord message event: where its call of
                    \* Handler::message stands
    rcon,           \* the RCON connections opened so far, in the order of connect
    logged,         \* the attempts whose error Handler::message logged
    words,          \* the whitespace-delimited tokens of MinecraftMessage.content
    has_guild,      \* whether ctx.cache.guild(guild_id) finds the guild
    scan,           \* the locals of replace_mentions: i, found_start,
                    \* start, end and replaced
    mentioned,      \* what replace_mentions left in content, or its Err
    mention_pc,     \* "input" before the call, "loop" in its for loop,
                    \* "done" after it
    md_text,        \* the text handed to markdown::parse
    md_blocks,      \* the Block tree parse returned
    md_mc,          \* what to_minecraft_format made of that tree
    md_pc,          \* "input", then "parsed", then "done"
    discord_text,   \* msg.content of the Discord message handled
    mc_chunks,      \* the chunks substituted for %content%, as UTF-8 bytes
    tellraw_pc,     \* "input" before Handler::message, "done" after truncate_lines
    death_line,     \* the content handed to try_parse_death
    ignore_keywords,\* the custom ignore phrases given to MessageParser::new
    custom_keywords,\* the custom death keywords given to MessageParser::new
    death_message,  \* what try_parse_death returned
    death_pc,       \* "input" before the call, "done" after it
    pb_content,     \* the text handed to parse_blocks
    pb_lines,       \* lines of parse_blocks: content.lines().collect()
    pb_index,       \* index of parse_blocks: the lines taken so far
    pb_t,           \* t of parse_blocks: the spans of the paragraph being read
    pb_blocks,      \* blocks of parse_blocks
    pb_found,       \* what parse_block last returned, and the lines it was
                    \* given
    sp_index,       \* index of parse_spans on the line at pb_index
    sp_t,           \* t of parse_spans: the text read since the last span
    sp_tokens,      \* tokens of parse_spans
    sp_found,       \* what parse_span last returned, and the text it was
                    \* given
    parse_pc,       \* "blocks" in the loop of parse_blocks, "spans" in that
                    \* of parse_spans, "done" after parse
    para_elements,  \* the spans handed to format_paragraph
    frames,         \* the calls of format_spans in progress, outermost first:
                    \* the elements left, ret, and the kind of the span whose
                    \* content they are
    stack,          \* open_tags, the Vec format_paragraph creates
    format_pc,      \* "format" during format_paragraph, "done" after it
    is_watching,    \* Handler.is_watching
    ready_events,   \* per cache_ready event: where its call of
                    \* Handler::cache_ready stands and what it loaded
    listeners,      \* the listener tasks spawned so far, each with the event
                    \* that spawned it
    cfg_channel_id, \* RootConfig.get_channel_id() of the running bridge
    cfg_webhook_url,\* RootConfig.webhook_url() of the running bridge
    current_user,   \* ctx.cache.current_user(), the bot user
    discord_msgs,   \* the messages created on Discord, each with who created it and what Handler::message did with it
    user_text,      \* msg.content of the message Handler::message handles
    author_name,    \* the name Handler::message uses for the author
    author_tag,     \* msg.author.tag()
    templated,      \* lines after apply_line_template
    commands,       \* the commands build_tellraw_command returned, in the order of the lines
    template_pc     \* where Handler::message stands: "input", "templated" or "done"

tailerVars ==
    << cached_uuids, chat_regex, raw_line, message, response, asked,
       cache_before, pc >>

renderVars == << blocks, rendered, render_pc >>

truncateVars == << marked, truncated, truncate_pc >>

deliveryVars == << enable_webserver, delivery, attempts, tailer_pc >>

queueVars ==
    << queue, closed, classified, producing, current, dequeued,
       consumer_pc >>

rconVars == << handlers, rcon, logged >>

mentionsVars == << words, has_guild, scan, mentioned, mention_pc >>

markdownVars == << md_text, md_blocks, md_mc, md_pc >>

tellrawVars == << discord_text, mc_chunks, tellraw_pc >>

deathVars == << death_line, ignore_keywords, custom_keywords, death_message, death_pc >>

parseVars ==
    << pb_content, pb_lines, pb_index, pb_t, pb_blocks, pb_found, sp_index, sp_t,
       sp_tokens, sp_found, parse_pc >>

formatVars == << para_elements, frames, stack, format_pc >>

watchVars == << is_watching, ready_events, listeners >>

echoVars == << cfg_channel_id, cfg_webhook_url, current_user, discord_msgs >>

templateVars == << user_text, author_name, author_tag, templated, commands, template_pc >>

\* the variables of a component whose code is not running
TailerIdle ==
    /\ cached_uuids = {}
    /\ chat_regex = VanillaRegex
    /\ raw_line = ""
    /\ message = None
    /\ response = LookupErr
    /\ asked = FALSE
    /\ cache_before = {}
    /\ pc = "idle"

RenderIdle ==
    /\ blocks = << >>
    /\ rendered = ""
    /\ render_pc = "idle"

TruncateIdle ==
    /\ marked = << >>
    /\ truncated = << >>
    /\ truncate_pc = "idle"

DeliveryIdle ==
    /\ enable_webserver = FALSE
    /\ delivery = << >>
    /\ attempts = << >>
    /\ tailer_pc = "idle"

QueueIdle ==
    /\ queue = << >>
    /\ closed = FALSE
    /\ classified = 0
    /\ producing = 0
    /\ current = 0
    /\ dequeued = << >>
    /\ consumer_pc = "idle"


RconIdle ==
    /\ handlers = << >>
    /\ rcon = << >>
    /\ logged = {}

MentionsIdle ==
    /\ words = << >>
    /\ has_guild = FALSE
    /\ scan = << >>
    /\ mentioned = ""
    /\ mention_pc = "idle"

MarkdownIdle ==
    /\ md_text = ""
    /\ md_blocks = << >>
    /\ md_mc = ""
    /\ md_pc = "idle"

TellrawIdle ==
    /\ discord_text = ""
    /\ mc_chunks = << >>
    /\ tellraw_pc = "idle"

DeathIdle ==
    /\ death_line = ""
    /\ ignore_keywords = << >>
    /\ custom_keywords = << >>
    /\ death_message = None
    /\ death_pc = "idle"

ParseIdle ==
    /\ pb_content = ""
    /\ pb_lines = << >>
    /\ pb_index = 0
    /\ pb_t = << >>
    /\ pb_blocks = << >>
    /\ pb_found = << >>
    /\ sp_index = 0
    /\ sp_t = ""
    /\ sp_tokens = << >>
    /\ sp_found = << >>
    /\ parse_pc = "idle"

FormatIdle ==
    /\ para_elements = << >>
    /\ frames = << >>
    /\ stack = << >>
    /\ format_pc = "idle"

WatchIdle ==
    /\ is_watching = FALSE
    /\ ready_events = << >>
    /\ listeners = << >>

EchoIdle ==
    /\ cfg_channel_id = 0
    /\ cfg_webhook_url = ""
    /\ current_user = << >>
    /\ discord_msgs = << >>

TemplateIdle ==
    /\ user_text = ""
    /\ author_name = ""
    /\ author_tag = ""
    /\ templated = << >>
    /\ commands = << >>
    /\ template_pc = "idle"

\* the variables of the other components, which a component's steps leave
\* alone, and their values while only that component runs
exceptTailer ==
    << renderVars,
       truncateVars,
       deliveryVars,
       queueVars,
       rconVars,
       mentionsVars,
       markdownVars,
       tellrawVars,
       deathVars,
       parseVars,
       formatVars,
       watchVars,
       echoVars,
       templateVars >>

OnlyTailer ==
    /\ RenderIdle
    /\ TruncateIdle
    /\ DeliveryIdle
    /\ QueueIdle
    /\ RconIdle
    /\ MentionsIdle
    /\ MarkdownIdle
    /\ TellrawIdle
    /\ DeathIdle
    /\ ParseIdle
    /\ FormatIdle
    /\ WatchIdle
    /\ EchoIdle
    /\ TemplateIdle

exceptRender ==
    << tailerVars,
       truncateVars,
       deliveryVars,
       queueVars,
       rconVars,
       mentionsVars,
       markdownVars,
       tellrawVars,
       deathVars,
       parseVars,
       formatVars,
       watchVars,
       echoVars,
       templateVars >>

OnlyRender ==
    /\ TailerIdle
    /\ TruncateIdle
    /\ DeliveryIdle
    /\ QueueIdle
    /\ RconIdle
    /\ MentionsIdle
    /\ MarkdownIdle
    /\ TellrawIdle
    /\ DeathIdle
    /\ ParseIdle
    /\ FormatIdle
    /\ WatchIdle
    /\ EchoIdle
    /\ TemplateIdle

exceptTruncate ==
    << tailerVars,
       renderVars,
       deliveryVars,
       queueVars,
       rconVars,
       mentionsVars,
       markdownVars,
       tellrawVars,
       deathVars,
       parseVars,
       formatVars,
       watchVars,
       echoVars,
       templateVars >>

OnlyTruncate ==
    /\ TailerIdle
    /\ RenderIdle
    /\ DeliveryIdle
    /\ QueueIdle
    /\ RconIdle
    /\ MentionsIdle
    /\ MarkdownIdle
    /\ TellrawIdle
    /\ DeathIdle
    /\ ParseIdle
    /\ FormatIdle
    /\ WatchIdle
    /\ EchoIdle
    /\ TemplateIdle

exceptDelivery ==
    << tailerVars,
       renderVars,
       truncateVars,
       queueVars,
       rconVars,
       mentionsVars,
       markdownVars,
       tellrawVars,
       deathVars,
       parseVars,
       formatVars,
       watchVars,
       echoVars,
       templateVars >>

OnlyDelivery ==
    /\ TailerIdle
    /\ RenderIdle
    /\ TruncateIdle
    /\ QueueIdle
    /\ RconIdle
    /\ MentionsIdle
    /\ MarkdownIdle
    /\ TellrawIdle
    /\ DeathIdle
    /\ ParseIdle
    /\ FormatIdle
    /\ WatchIdle
    /\ EchoIdle
    /\ TemplateIdle

exceptQueue ==
    << tailerVars,
       renderVars,
       truncateVars,
       deliveryVars,
       rconVars,
       mentionsVars,
       markdownVars,
       tellrawVars,
       deathVars,
       parseVars,
       formatVars,
       watchVars,
       echoVars,
       templateVars >>

OnlyQueue ==
    /\ TailerIdle
    /\ RenderIdle
    /\ TruncateIdle
    /\ DeliveryIdle
    /\ RconIdle
    /\ MentionsIdle
    /\ MarkdownIdle
    /\ TellrawIdle
    /\ DeathIdle
    /\ ParseIdle
    /\ FormatIdle
    /\ WatchIdle
    /\ EchoIdle
    /\ TemplateIdle

exceptRcon ==
    << tailerVars,
       renderVars,
       truncateVars,
       deliveryVars,
       queueVars,
       mentionsVars,
       markdownVars,
       tellrawVars,
       deathVars,
       parseVars,
       formatVars,
       watchVars,
       echoVars,
       templateVars >>

OnlyRcon ==
    /\ TailerIdle
    /\ RenderIdle
    /\ TruncateIdle
    /\ DeliveryIdle
    /\ QueueIdle
    /\ MentionsIdle
    /\ MarkdownIdle
    /\ TellrawIdle
    /\ DeathIdle
    /\ ParseIdle
    /\ FormatIdle
    /\ WatchIdle
    /\ EchoIdle
    /\ TemplateIdle

exceptMentions ==
    << tailerVars,
       renderVars,
       truncateVars,
       deliveryVars,
       queueVars,
       rconVars,
       markdownVars,
       tellrawVars,
       deathVars,
       parseVars,
       formatVars,
       watchVars,
       echoVars,
       templateVars >>

OnlyMentions ==
    /\ TailerIdle
    /\ RenderIdle
    /\ TruncateIdle
    /\ DeliveryIdle
    /\ QueueIdle
    /\ RconIdle
    /\ MarkdownIdle
    /\ TellrawIdle
    /\ DeathIdle
    /\ ParseIdle
    /\ FormatIdle
    /\ WatchIdle
    /\ EchoIdle
    /\ TemplateIdle

exceptMarkdown ==
    << tailerVars,
       renderVars,
       truncateVars,
       deliveryVars,
       queueVars,
       rconVars,
       mentionsVars,
       tellrawVars,
       deathVars,
       parseVars,
       formatVars,
       watchVars,
       echoVars,
       templateVars >>

OnlyMarkdown ==
    /\ TailerIdle
    /\ RenderIdle
    /\ TruncateIdle
    /\ DeliveryIdle
    /\ QueueIdle
    /\ RconIdle
    /\ MentionsIdle
    /\ TellrawIdle
    /\ DeathIdle
    /\ ParseIdle
    /\ FormatIdle
    /\ WatchIdle
    /\ EchoIdle
    /\ TemplateIdle

exceptTellraw ==
    << tailerVars,
       renderVars,
       truncateVars,
       deliveryVars,
       queueVars,
       rconVars,
       mentionsVars,
       markdownVars,
       deathVars,
       parseVars,
       formatVars,
       watchVars,
       echoVars,
       templateVars >>

OnlyTellraw ==
    /\ TailerIdle
    /\ RenderIdle
    /\ TruncateIdle
    /\ DeliveryIdle
    /\ QueueIdle
    /\ RconIdle
    /\ MentionsIdle
    /\ MarkdownIdle
    /\ DeathIdle
    /\ ParseIdle
    /\ FormatIdle
    /\ WatchIdle
    /\ EchoIdle
    /\ TemplateIdle

exceptDeath ==
    << tailerVars,
       renderVars,
       truncateVars,
       deliveryVars,
       queueVars,
       rconVars,
       mentionsVars,
       markdownVars,
       tellrawVars,
       parseVars,
       formatVars,
       watchVars,
       echoVars,
       templateVars >>

OnlyDeath ==
    /\ TailerIdle
    /\ RenderIdle
    /\ TruncateIdle
    /\ DeliveryIdle
    /\ QueueIdle
    /\ RconIdle
    /\ MentionsIdle
    /\ MarkdownIdle
    /\ TellrawIdle
    /\ ParseIdle
    /\ FormatIdle
    /\ WatchIdle
    /\ EchoIdle
    /\ TemplateIdle

exceptParse ==
    << tailerVars,
       renderVars,
       truncateVars,
       deliveryVars,
       queueVars,
       rconVars,
       mentionsVars,
       markdownVars,
       tellrawVars,
       deathVars,
       formatVars,
       watchVars,
       echoVars,
       templateVars >>

OnlyParse ==
    /\ TailerIdle
    /\ RenderIdle
    /\ TruncateIdle
    /\ DeliveryIdle
    /\ QueueIdle
    /\ RconIdle
    /\ MentionsIdle
    /\ MarkdownIdle
    /\ TellrawIdle
    /\ DeathIdle
    /\ FormatIdle
    /\ WatchIdle
    /\ EchoIdle
    /\ TemplateIdle

exceptFormat ==
    << tailerVars,
       renderVars,
       truncateVars,
       deliveryVars,
       queueVars,
       rconVars,
       mentionsVars,
       markdownVars,
       tellrawVars,
       deathVars,
       parseVars,
       watchVars,
       echoVars,
       templateVars >>

OnlyFormat ==
    /\ TailerIdle
    /\ RenderIdle
    /\ TruncateIdle
    /\ DeliveryIdle
    /\ QueueIdle
    /\ RconIdle
    /\ MentionsIdle
    /\ MarkdownIdle
    /\ TellrawIdle
    /\ DeathIdle
    /\ ParseIdle
    /\ WatchIdle
    /\ EchoIdle
    /\ TemplateIdle

exceptWatch ==
    << tailerVars,
       renderVars,
       truncateVars,
       deliveryVars,
       queueVars,
       rconVars,
       mentionsVars,
       markdownVars,
       tellrawVars,
       deathVars,
       parseVars,
       formatVars,
       echoVars,
       templateVars >>

OnlyWatch ==
    /\ TailerIdle
    /\ RenderIdle
    /\ TruncateIdle
    /\ DeliveryIdle
    /\ QueueIdle
    /\ RconIdle
    /\ MentionsIdle
    /\ MarkdownIdle
    /\ TellrawIdle
    /\ DeathIdle
    /\ ParseIdle
    /\ FormatIdle
    /\ EchoIdle
    /\ TemplateIdle

exceptEcho ==
    << tailerVars,
       renderVars,
       truncateVars,
       deliveryVars,
       queueVars,
       rconVars,
       mentionsVars,
       markdownVars,
       tellrawVars,
       deathVars,
       parseVars,
       formatVars,
       watchVars,
       templateVars >>

OnlyEcho ==
    /\ TailerIdle
    /\ RenderIdle
    /\ TruncateIdle
    /\ DeliveryIdle
    /\ QueueIdle
    /\ RconIdle
    /\ MentionsIdle
    /\ MarkdownIdle
    /\ TellrawIdle
    /\ DeathIdle
    /\ ParseIdle
    /\ FormatIdle
    /\ WatchIdle
    /\ TemplateIdle

exceptTemplate ==
    << tailerVars,
       renderVars,
       truncateVars,
       deliveryVars,
       queueVars,
       rconVars,
       mentionsVars,
       markdownVars,
       tellrawVars,
       deathVars,
       parseVars,
       formatVars,
       watchVars,
       echoVars >>

OnlyTemplate ==
    /\ TailerIdle
    /\ RenderIdle
    /\ TruncateIdle
    /\ DeliveryIdle
    /\ QueueIdle
    /\ RconIdle
    /\ MentionsIdle
    /\ MarkdownIdle
    /\ TellrawIdle
    /\ DeathIdle
    /\ ParseIdle
    /\ FormatIdle
    /\ WatchIdle
    /\ EchoIdle

TailerInit ==
    /\ cached_uuids = EmptyCache
    /\ chat_regex \in ChatRegexConfigs
    /\ raw_line = ""
    /\ message = None
    /\ response = LookupErr
    /\ asked = FALSE
    /\ cache_before = EmptyCache
    /\ pc = "next"

\* log_watcher.next().await yields a line
NextLine ==
    /\ pc = "next"
    /\ raw_line' \in RawLines
    /\ pc' = "parse"
    /\ UNCHANGED << cached_uuids, chat_regex, message, response, asked,
                    cache_before >>
    /\ UNCHANGED exceptTailer

\* parser.parse_line(line.line(), regex.clone()).await
ParseLine ==
    /\ pc = "parse"
    /\ \E resp \in
            IF parse_line(cached_uuids, BuiltinIgnorePhrases,
                          BuiltinDeathKeywords, raw_line, chat_regex,
                          LookupErr).asked
            THEN Responses ELSE { LookupErr } :
          LET out == parse_line(cached_uuids, BuiltinIgnorePhrases,
                                BuiltinDeathKeywords, raw_line, chat_regex, resp)
          IN  /\ message' = out.result
              /\ cached_uuids' = out.cache
              /\ asked' = out.asked
              /\ response' = resp
              /\ pc' = CASE out.result.tag = "Panic" -> "crashed"
                         [] out.result.tag = "None" -> "continue"
                         [] OTHER -> "send"
    /\ cache_before' = cached_uuids
    /\ UNCHANGED << chat_regex, raw_line >>
    /\ UNCHANGED exceptTailer

\* None => continue
Continue ==
    /\ pc = "continue"
    /\ pc' = "next"
    /\ raw_line' = ""
    /\ message' = None
    /\ response' = LookupErr
    /\ asked' = FALSE
    /\ cache_before' = cached_uuids
    /\ UNCHANGED << cached_uuids, chat_regex >>
    /\ UNCHANGED exceptTailer

\* send_to_discord(..., message).await, whatever its result
Send ==
    /\ pc = "send"
    /\ pc' = "next"
    /\ raw_line' = ""
    /\ message' = None
    /\ response' = LookupErr
    /\ asked' = FALSE
    /\ cache_before' = cached_uuids
    /\ UNCHANGED << cached_uuids, chat_regex >>
    /\ UNCHANGED exceptTailer

vars ==
    << tailerVars, renderVars, truncateVars, deliveryVars, queueVars,
       rconVars,
       mentionsVars,
       markdownVars,
       tellrawVars,
       deathVars,
       parseVars,
       formatVars,
       watchVars,
       echoVars,
       templateVars >>

Init == TailerInit /\ OnlyTailer

Next ==
    \/ NextLine
    \/ ParseLine
    \/ Continue
    \/ Send

Spec == Init /\ [][Next]_vars

\* a call of parse_line has just ended
Parsed == pc \in { "continue", "send", "crashed" }

\* the prefix-stripped content that call classified
Content == Trim(trim_prefix(raw_line).text)

TypeOK ==
    /\ pc \in { "next", "parse", "continue", "send", "crashed" }
    /\ OnlyTailer
    /\ message.tag \in { "None", "Some", "Panic" }
    /\ \A e \in cached_uuids : e[1] \in Names /\ e[2] \in UUIDs


(***************************************************************************)
(* Claims about the classifier                                             *)
(***************************************************************************)

\* the whitespace-delimited tokens of a text
Tokens(s) == SelectSeq(Split(s, " "), LAMBDA t : t # "")

\* the line carries a prefix, so that rules 2..9 are tried on Content
HasPrefix == trim_prefix(raw_line).some

\* the number of the first rule of the decision list that applies to the
\* content c under the chat pattern re
RuleOf(c, re) ==
    IF StartsWith(c, "Villager") /\ Contains(c, "died, message:") THEN 2
    ELSE IF StartsWith(c, "UUID of player") THEN 3
    ELSE IF IsMatch(re, c) THEN 4
    ELSE IF Contains(c, "joined the game") \/ Contains(c, "left the game") THEN 5
    ELSE IF \/ Contains(c, "has made the advancement")
            \/ Contains(c, "has completed the challenge")
            \/ Contains(c, "has reached the goal") THEN 6
    ELSE IF StartsWith(c, "Done (") THEN 7
    ELSE IF StartsWith(c, "Stopping the server") THEN 8
    ELSE 9

\* the rule that decides raw_line; rule 1 discards a line without prefix
Rule == IF HasPrefix THEN RuleOf(Content, chat_regex) ELSE 1

\* the chat pattern exposes both named captures
HasCaptures == chat_regex.username /\ chat_regex.content

\* the names that have an entry in a cache
Keys(cache) == { e[1] : e \in cache }

\* a cache in which name maps to uuid and every other entry is as in cache
With(cache, name, uuid) ==
    { e \in cache : e[1] # name } \cup { << name, uuid >> }

\* a cache without name and with every other entry as in cache
Without(cache, name) == { e \in cache : e[1] # name }

\* C1: classification never raises to the caller: whatever the line, the
\* chat pattern and the cache, parse_line returns a message or nothing and
\* the loop goes on.
ClassificationNeverRaises == message.tag # "Panic"

\* the outcome the decision list of C2 gives for the classified content
DecisionListHolds ==
    LET r == Rule
        c == Content
    IN  CASE r = 2 -> message = None
          [] r = 3 -> message = None
          [] r = 4 -> HasCaptures =>
                        /\ message.tag = "Some"
                        /\ message.msg.source = "Player"
                        /\ Keys(cache_before) \subseteq Keys(cached_uuids)
          [] r = 5 -> message = Some(Msg("", c, "Server", ""))
          [] r = 6 -> message = Some(Msg("", ":partying_face: " \o c, "Server", ""))
          [] r = 7 -> message = Some(Msg("", ":white_check_mark: Server has started",
                                         "Server", ""))
          [] r = 8 -> message = Some(Msg("", ":x: Server is shutting down",
                                         "Server", ""))
          [] r = 9 -> message = try_parse_death(BuiltinIgnorePhrases,
                                                BuiltinDeathKeywords, c)
          [] OTHER -> message = None

\* C2: parse_line is a strict first-match decision list over the content:
\* Villager death -> nothing, "UUID of player" -> nothing, chat -> Player
\* message, join/leave -> Server message with the content, advancement ->
\* ":partying_face: " + content, "Done (" -> server started, "Stopping the
\* server" -> server stopping, else death classification; the first rule
\* that applies decides and no later rule has an effect.
FirstMatchDecisionList == Parsed => DecisionListHolds

\* the decision list decides every call that returns
DecisionListWhenReturning ==
    Parsed /\ message.tag # "Panic" => DecisionListHolds

\* C3: a line classified as chat yields a Player message with the captured
\* name and content, whose uuid is the cached one when the name is cached
\* (no lookup made), else the looked-up one, else the fallback uuid; a failed
\* lookup still yields the message and leaves the cache unchanged.
ChatUuidResolution ==
    Parsed /\ HasCaptures /\ Rule = 4 =>
        LET cap == Captures(chat_regex, Content)
        IN  /\ message.tag = "Some"
            /\ message.msg.source = "Player"
            /\ message.msg.name = cap.first
            /\ message.msg.content = cap.second
            /\ IF cap.first \in Keys(cache_before)
               THEN /\ << cap.first, message.msg.uuid >> \in cache_before
                    /\ ~asked
               ELSE /\ asked
                    /\ IF response.ok
                       THEN message.msg.uuid = response.id
                       ELSE /\ message.msg.uuid = FALLBACK_UUID
                            /\ cached_uuids = cache_before

\* C3 happens: a chat line of a player who is not cached, the lookup failed
\* and the message went out with the fallback uuid
ChatFallbackReached ==
    /\ pc = "send" /\ HasCaptures /\ Rule = 4
    /\ asked /\ ~response.ok
    /\ cache_before # {}
    /\ message.msg.uuid = FALLBACK_UUID

\* C4: after a line whose content is "X left the game" (no chat match) the
\* cache has no entry for X, every other entry is unchanged and a Server
\* message with exactly the content is returned; a "joined the game" line
\* without "left the game" returns the same kind of message and leaves the
\* cache unchanged.
LeaveEvictsOnlyThatPlayer ==
    /\ \A X \in Names :
        Parsed /\ HasPrefix /\ Content = X \o " left the game" /\ Rule # 4 =>
            /\ X \notin Keys(cached_uuids)
            /\ cached_uuids = Without(cache_before, X)
            /\ message = Some(Msg("", Content, "Server", ""))
    /\ Parsed /\ Rule = 5 /\ ~Contains(Content, "left the game") =>
            /\ cached_uuids = cache_before
            /\ message = Some(Msg("", Content, "Server", ""))

\* C4 happens: Bob leaves while Bob and bob are cached
LeaveReached ==
    /\ pc = "send"
    /\ Content = "Bob left the game"
    /\ Keys(cache_before) = { "Bob", "bob" }
    /\ Keys(cached_uuids) = { "bob" }

LookupCase ==
    /\ Rule = 4 /\ HasCaptures
    /\ Captures(chat_regex, Content).first \notin Keys(cache_before)
    /\ response.ok

\* C6 as stated: parse_line changes the cache in two cases only, the
\* insertion on a "UUID of player" line and the removal on a "left the
\* game" line; every other line, chat lines included, leaves it as it was.
CacheChangesInTwoCasesOnly ==
    Parsed /\ Rule # 3
           /\ ~(Rule = 5 /\ Contains(Content, "left the game"))
        => cached_uuids = cache_before

\* C6 amended: parse_line changes the cache in three cases only: the
\* insertion on a "UUID of player" line, the removal on a "left the game"
\* line, and the insertion of the profile a successful lookup returned for
\* a chat line whose name was not cached; every other line leaves it as it
\* was.
CacheChangesInThreeCasesOnly ==
    Parsed =>
        LET r == Rule
            c == Content
        IN  IF r = 3
            THEN cached_uuids =
                    IF Len(Tokens(c)) >= 6
                    THEN With(cache_before, Tokens(c)[4], Tokens(c)[6])
                    ELSE cache_before
            ELSE IF r = 5 /\ Contains(c, "left the game")
            THEN cached_uuids = Without(cache_before, Head(Tokens(c)))
            ELSE IF r = 4 /\ LookupCase
            THEN cached_uuids = With(cache_before, response.name, response.id)
            ELSE cached_uuids = cache_before

\* C6 happens: a chat line whose lookup succeeded has changed the cache
LookupCachedReached ==
    /\ pc = "send" /\ LookupCase
    /\ cached_uuids # cache_before

(***************************************************************************)
(* markdown: the Span and Block trees and their Minecraft rendering        *)
(*                                                                         *)
(* The section sign U+00A7 that starts a Minecraft format code is written  *)
(* "&" in every string of this module: TLC keeps only the ASCII characters *)
(* of a string value intact from one state to the next.  It is one         *)
(* character here as it is one char in the source.                         *)
(***************************************************************************)
EMPHASIS_TAG == "&o"

RESET_TAG == "&r"

STRIKETHROUGH_TAG == "&m"

STRONG_TAG == "&l"

UNDERLINE_TAG == "&n"

\* enum Span; a leaf has no content, a formatting span has no text
Literal(c) == [ kind |-> "Literal", text |-> c, content |-> << >> ]

Text(t) == [ kind |-> "Text", text |-> t, content |-> << >> ]

Emphasis(c) == [ kind |-> "Emphasis", text |-> "", content |-> c ]

Strong(c) == [ kind |-> "Strong", text |-> "", content |-> c ]

Strikethrough(c) == [ kind |-> "Strikethrough", text |-> "", content |-> c ]

Underline(c) == [ kind |-> "Underline", text |-> "", content |-> c ]

\* enum Block
Paragraph(spans) == [ kind |-> "Paragraph", spans |-> spans, inner |-> << >> ]

Blockquote(inner) == [ kind |-> "Blockquote", spans |-> << >>, inner |-> inner ]

\* str::ends_with
EndsWith(s, p) ==
    /\ Len(s) >= Len(p)
    /\ SubSeq(s, Len(s) - Len(p) + 1, Len(s)) = p

\* [String]::concat
RECURSIVE Concat(_)
Concat(strs) ==
    IF strs = << >> THEN "" ELSE Head(strs) \o Concat(Tail(strs))

\* Vec::pop
Pop(v) == SubSeq(v, 1, Len(v) - 1)

RECURSIVE format_spans(_, _)

\* Span::to_minecraft(&self, open_tags: &mut Vec<String>): the string it
\* returns and the stack it leaves
to_minecraft(self, open_tags) ==
    CASE self.kind \in { "Literal", "Text" } ->
            [ out |-> self.text, tags |-> open_tags ]
      [] self.kind = "Emphasis" ->
            LET span == format_spans(self.content,
                                     Append(open_tags, EMPHASIS_TAG))
            IN  [ out |-> EMPHASIS_TAG \o span.out \o RESET_TAG,
                  tags |-> span.tags ]
      [] self.kind = "Strong" ->
            LET span == format_spans(self.content,
                                     Append(open_tags, STRONG_TAG))
            IN  [ out |-> STRONG_TAG \o span.out \o RESET_TAG,
                  tags |-> span.tags ]
      [] self.kind = "Strikethrough" ->
            LET span == format_spans(self.content,
                                     Append(open_tags, STRIKETHROUGH_TAG))
            IN  [ out |-> STRIKETHROUGH_TAG \o span.out \o RESET_TAG,
                  tags |-> span.tags ]
      [] self.kind = "Underline" ->
            LET span == format_spans(self.content,
                                     Append(open_tags, UNDERLINE_TAG))
            IN  [ out |-> UNDERLINE_TAG \o span.out \o RESET_TAG,
                  tags |-> span.tags ]

\* the body of the loop of format_spans, from the element at the head on
RECURSIVE FormatLoop(_, _, _)
FormatLoop(elements, ret, open_tags) ==
    IF elements = << >>
    THEN [ out |-> ret, tags |-> open_tags ]
    ELSE LET next == to_minecraft(Head(elements), open_tags)
             pushed == ret \o next.out
         IN  IF next.tags # << >> /\ EndsWith(pushed, RESET_TAG)
             THEN FormatLoop(Tail(elements),
                             pushed \o Concat(Pop(next.tags)),
                             Pop(next.tags))
             ELSE FormatLoop(Tail(elements), pushed, next.tags)

\* format_spans(elements, open_tags: &mut Vec<String>)
format_spans(elements, open_tags) == FormatLoop(elements, "", open_tags)

format_paragraph(elements) == format_spans(elements, << >>).out

RECURSIVE to_minecraft_format(_)

format_blockquote(elements) == "> " \o to_minecraft_format(elements)

to_minecraft_format(blks) ==
    IF blks = << >>
    THEN ""
    ELSE LET block == Head(blks)
             next == IF block.kind = "Paragraph"
                     THEN format_paragraph(block.spans)
                     ELSE format_blockquote(block.inner)
         IN  next \o to_minecraft_format(Tail(blks))

(***************************************************************************)
(* The trees rendered: every tree of at most MaxSpans elements per level   *)
(* and formatting spans nested at most MaxDepth deep                       *)
(***************************************************************************)
MaxSpans == 2

MaxDepth == 2

FormattingKinds == { "Emphasis", "Strong", "Strikethrough", "Underline" }

Formatting(kind, c) == [ kind |-> kind, text |-> "", content |-> c ]

\* a plain text, a text a Discord user typed a reset code into, an escape
Leaves == { Text("em "), Text("x&r"), Literal("*") }

RECURSIVE SpanSeqs(_)
SpanSeqs(d) ==
    LET elems == IF d = 0
                 THEN Leaves
                 ELSE Leaves \cup { Formatting(k, c) :
                                      k \in FormattingKinds,
                                      c \in SpanSeqs(d - 1) }
    IN  UNION { [ 1..n -> elems ] : n \in 0..MaxSpans }

\* the formatting spans nested exactly as deep as the bound allows, alone
\* or followed by a leaf, and every shallower paragraph
Paragraphs ==
    SpanSeqs(MaxDepth - 1)
        \cup { << Formatting(k, c) >> \o post :
                 k \in FormattingKinds,
                 c \in SpanSeqs(MaxDepth - 1),
                 post \in { << >> } \cup { << l >> : l \in Leaves } }

BlockTrees ==
    { << Paragraph(p) >> : p \in Paragraphs }
        \cup { << Blockquote(<< Paragraph(p) >>) >> : p \in SpanSeqs(1) }
        \cup { << Paragraph(p), Blockquote(<< Paragraph(q) >>) >> :
                 p \in SpanSeqs(0), q \in SpanSeqs(0) }

RenderInit ==
    /\ OnlyRender
    /\ blocks \in BlockTrees
    /\ rendered = ""
    /\ render_pc = "input"

\* markdown::to_minecraft_format(&blocks)
Render ==
    /\ render_pc = "input"
    /\ rendered' = to_minecraft_format(blocks)
    /\ render_pc' = "done"
    /\ UNCHANGED blocks
    /\ UNCHANGED exceptRender

RenderNext == Render

SpecRender == RenderInit /\ [][RenderNext]_vars

(***************************************************************************)
(* Claims about the renderer                                               *)
(***************************************************************************)
TagOf(kind) ==
    CASE kind = "Emphasis" -> EMPHASIS_TAG
      [] kind = "Strong" -> STRONG_TAG
      [] kind = "Strikethrough" -> STRIKETHROUGH_TAG
      [] kind = "Underline" -> UNDERLINE_TAG

\* what the claim says a sequence of spans renders as, inside the
\* formatting spans whose codes are `enclosing`, outermost first
RECURSIVE Reopening(_, _)
Reopening(elements, enclosing) ==
    IF elements = << >>
    THEN ""
    ELSE LET e == Head(elements)
             one == IF e.kind \in FormattingKinds
                    THEN TagOf(e.kind)
                           \o Reopening(e.content,
                                        Append(enclosing, TagOf(e.kind)))
                           \o RESET_TAG \o Concat(enclosing)
                    ELSE e.text
         IN  one \o Reopening(Tail(elements), enclosing)

RECURSIVE ReopeningBlocks(_)
ReopeningBlocks(blks) ==
    IF blks = << >>
    THEN ""
    ELSE LET b == Head(blks)
         IN  (IF b.kind = "Paragraph"
              THEN Reopening(b.spans, << >>)
              ELSE "> " \o ReopeningBlocks(b.inner))
               \o ReopeningBlocks(Tail(blks))

\* no Text or Literal of the tree contains the character that starts a
\* format code
RECURSIVE PlainSpans(_)
PlainSpans(elements) ==
    \A i \in 1..Len(elements) :
        /\ ~Contains(elements[i].text, "&")
        /\ PlainSpans(elements[i].content)

RECURSIVE PlainBlocks(_)
PlainBlocks(blks) ==
    \A i \in 1..Len(blks) :
        PlainSpans(blks[i].spans) /\ PlainBlocks(blks[i].inner)

\* the trees of the three examples
EmInnerStrong ==
    << Paragraph(<< Emphasis(<< Text("em "),
                                Strong(<< Text("strong") >>) >>) >>) >>

StrongInnerEm2 ==
    << Paragraph(<< Strong(<< Emphasis(<< Text("em") >>),
                              Text(" strong") >>) >>) >>

StrikethroughInnerUnderline ==
    << Paragraph(<< Strikethrough(<< Text("strikethrough "),
                                     Underline(<< Text("underline") >>)
                                  >>) >>) >>

ExamplesRender ==
    /\ to_minecraft_format(EmInnerStrong) = "&oem &lstrong&r&o&r"
    /\ to_minecraft_format(StrongInnerEm2) = "&l&oem&r&l strong&r"
    /\ to_minecraft_format(StrikethroughInnerUnderline)
         = "&mstrikethrough &nunderline&r&m&r"

\* C7: for every Span tree, each formatting span renders as its code, its
\* rendered children and a reset code, every reset code closing a span
\* nested inside k >= 1 formatting spans is followed by the codes of exactly
\* those k spans, outermost first, and a reset code closing a top-level span
\* is followed by no code; the three examples render as stated.
ResetReopensEnclosingCodes ==
    /\ render_pc = "done" => rendered = ReopeningBlocks(blocks)
    /\ ExamplesRender

\* the same for the trees whose texts hold no format code: the stack is
\* exact there
ReopensWhenTextsPlain ==
    /\ (render_pc = "done" /\ PlainBlocks(blocks))
          => rendered = ReopeningBlocks(blocks)
    /\ ExamplesRender

\* a span nested two deep, with a sibling after it, has been rendered
NestedSpanRendered ==
    /\ render_pc = "done"
    /\ PlainBlocks(blocks)
    /\ \E k1, k2 \in FormattingKinds :
          /\ k1 # k2
          /\ blocks = << Paragraph(<< Formatting(k1,
                             << Formatting(k2, << Text("em ") >>),
                                Text("em ") >>) >>) >>
          /\ rendered = TagOf(k1) \o TagOf(k2) \o "em " \o RESET_TAG
                          \o TagOf(k1) \o "em " \o RESET_TAG

(***************************************************************************)
(* discord: truncate_lines.  A String is the sequence of its UTF-8 bytes,  *)
(* which is what str::len and str::get count                               *)
(***************************************************************************)
MAX_LINE_LENGTH == 100

\* a UTF-8 continuation byte, 0b10xxxxxx
IsContinuation(b) == b \in 128..191

\* str::is_char_boundary
is_char_boundary(s, index) ==
    \/ index = 0
    \/ index = Len(s)
    \/ index < Len(s) /\ ~IsContinuation(s[index + 1])

\* str::get(..end): None unless end is a char boundary of s
GetTo(s, end) ==
    IF is_char_boundary(s, end)
    THEN [ some |-> TRUE, val |-> SubSeq(s, 1, end) ]
    ELSE [ some |-> FALSE, val |-> << >> ]

\* str::get(begin..): None unless begin is a char boundary of s
GetFrom(s, begin) ==
    IF is_char_boundary(s, begin)
    THEN [ some |-> TRUE, val |-> SubSeq(s, begin + 1, Len(s)) ]
    ELSE [ some |-> FALSE, val |-> << >> ]

\* cutting after every MAX_LINE_LENGTH bytes, wherever that falls
RECURSIVE TruncateLineAnywhere(_, _)
TruncateLineAnywhere(line, chunks) ==
    IF line = << >>
    THEN chunks
    ELSE IF Len(line) <= MAX_LINE_LENGTH
         THEN Append(chunks, line)
         ELSE TruncateLineAnywhere(
                  SubSeq(line, MAX_LINE_LENGTH + 1, Len(line)),
                  Append(chunks, SubSeq(line, 1, MAX_LINE_LENGTH)))

\* the while loop of truncate_lines on one line: the chunks pushed after
\* those of `chunks`
RECURSIVE TruncateLine(_, _)
TruncateLine(line, chunks) ==
    IF line = << >>
    THEN chunks
    ELSE LET to == GetTo(line, MAX_LINE_LENGTH)
             trunk == IF to.some THEN to.val ELSE line
             from == GetFrom(line, MAX_LINE_LENGTH)
             rest == IF from.some THEN from.val ELSE << >>
         IN  TruncateLine(rest, Append(chunks, trunk))

\* the for loop of truncate_lines
RECURSIVE TruncateFrom(_, _)
TruncateFrom(ls, chunks) ==
    IF ls = << >>
    THEN chunks
    ELSE TruncateFrom(Tail(ls), TruncateLine(Head(ls), chunks))

truncate_lines(ls) == TruncateFrom(ls, << >>)

(***************************************************************************)
(* The lines truncated: ASCII runs around one character of 1 to 4 bytes,   *)
(* placed so that byte MAX_LINE_LENGTH falls before, inside and after it,  *)
(* and lines of multi-byte characters only                                 *)
(***************************************************************************)
MaxLines == 2

\* n times the bytes of one character
RECURSIVE Repeat(_, _)
Repeat(char, n) == IF n = 0 THEN << >> ELSE char \o Repeat(char, n - 1)

\* "a", e acute, the euro sign, an emoji
Chars == { << 97 >>, << 195, 169 >>, << 226, 130, 172 >>,
           << 240, 159, 152, 128 >> }

PrefixLens == { 0, 97, 98, 99, 100 }

SuffixLens == { 0, 1, 10, 100 }

TestLines ==
    { Repeat(<< 97 >>, p) \o mid \o Repeat(<< 97 >>, s) :
        p \in PrefixLens, mid \in Chars \cup { << >> }, s \in SuffixLens }
    \cup { Repeat(<< 195, 169 >>, 60), Repeat(<< 195, 169 >>, 110),
           Repeat(<< 226, 130, 172 >>, 40) }

\* the lines that follow the first one of a message
FollowLines ==
    { << >>, << 97 >>, Repeat(<< 97 >>, 101),
      Repeat(<< 97 >>, 99) \o << 195, 169 >> \o << 97 >> }

RECURSIVE LineLists(_)
LineLists(n) ==
    IF n = 0
    THEN { << >> }
    ELSE IF n = 1
         THEN { << l >> : l \in TestLines }
         ELSE { ls \o << l >> : ls \in LineLists(n - 1), l \in FollowLines }

TruncateInit ==
    /\ OnlyTruncate
    /\ marked \in UNION { LineLists(n) : n \in 0..MaxLines }
    /\ truncated = << >>
    /\ truncate_pc = "input"

\* let lines = truncate_lines(marked)
Truncate ==
    /\ truncate_pc = "input"
    /\ truncated' = truncate_lines(marked)
    /\ truncate_pc' = "done"
    /\ UNCHANGED marked
    /\ UNCHANGED exceptTruncate

TruncateNext == Truncate

SpecTruncate == TruncateInit /\ [][TruncateNext]_vars

(***************************************************************************)
(* Claims about truncate_lines                                             *)
(***************************************************************************)

\* the number of bytes of the character a byte starts, 0 for a
\* continuation byte
Width(b) ==
    CASE b < 128 -> 1
      [] b \in 128..191 -> 0
      [] b \in 192..223 -> 2
      [] b \in 224..239 -> 3
      [] OTHER -> 4

\* the bytes are whole characters, one after the other: the first byte
\* starts a character, and every byte that starts one is followed by exactly
\* its continuation bytes
ValidUtf8(s) ==
    /\ s # << >> => ~IsContinuation(s[1])
    /\ \A i \in 1..Len(s) :
          LET w == Width(s[i])
          IN  w > 0 =>
                /\ i + w - 1 <= Len(s)
                /\ \A j \in (i + 1)..(i + w - 1) : IsContinuation(s[j])
                /\ i + w <= Len(s) => ~IsContinuation(s[i + w])

\* the number of characters of a string
CharCount(s) == Cardinality({ i \in 1..Len(s) : ~IsContinuation(s[i]) })

IsPrefix(p, s) == Len(p) <= Len(s) /\ SubSeq(s, 1, Len(p)) = p

\* how many of the leading chunks concatenate to the line, -1 if none do
RECURSIVE Take(_, _)
Take(chunks, line) ==
    IF line = << >>
    THEN 0
    ELSE IF chunks = << >> \/ Head(chunks) = << >>
              \/ ~IsPrefix(Head(chunks), line)
         THEN -1
         ELSE LET n == Take(Tail(chunks),
                            SubSeq(line, Len(Head(chunks)) + 1, Len(line)))
              IN  IF n = -1 THEN -1 ELSE n + 1

\* the chunks split into one run per line, in order, each run concatenating
\* to its line; ok is FALSE when there is no such split
RECURSIVE Groups(_, _)
Groups(chunks, ls) ==
    IF ls = << >>
    THEN [ ok |-> chunks = << >>, runs |-> << >> ]
    ELSE LET n == Take(chunks, Head(ls))
         IN  IF n = -1
             THEN [ ok |-> FALSE, runs |-> << >> ]
             ELSE LET rest == Groups(SubSeq(chunks, n + 1, Len(chunks)),
                                     Tail(ls))
                  IN  [ ok |-> rest.ok,
                        runs |-> << SubSeq(chunks, 1, n) >> \o rest.runs ]

\* C8: every chunk is non-empty and at most MAX_LINE_LENGTH long, every
\* chunk but the last of its line is exactly MAX_LINE_LENGTH long, an empty
\* line yields no chunk, a non-empty line of at most MAX_LINE_LENGTH yields
\* itself as its only chunk, and a line of 110 yields its first 100 and then
\* its last 10.  Lengths are taken in bytes, as str::len and str::get take
\* them.
ChunksWithinMaxLineLength ==
    truncate_pc = "done" =>
        LET g == Groups(truncated, marked)
        IN  /\ g.ok
            /\ \A i \in 1..Len(truncated) :
                  /\ truncated[i] # << >>
                  /\ Len(truncated[i]) <= MAX_LINE_LENGTH
            /\ \A i \in 1..Len(marked) :
                  LET run == g.runs[i]
                      line == marked[i]
                  IN  /\ \A j \in 1..(Len(run) - 1) :
                            Len(run[j]) = MAX_LINE_LENGTH
                      /\ line = << >> => run = << >>
                      /\ (line # << >> /\ Len(line) <= MAX_LINE_LENGTH)
                            => run = << line >>
                      /\ Len(line) = 110
                            => run = << SubSeq(line, 1, 100),
                                        SubSeq(line, 101, 110) >>

\* the same with lengths taken in characters
ChunksWithinMaxLineLengthInChars ==
    truncate_pc = "done" =>
        \A i \in 1..Len(truncated) :
            /\ truncated[i] # << >>
            /\ CharCount(truncated[i]) <= MAX_LINE_LENGTH

\* the same for the lines where byte MAX_LINE_LENGTH and its multiples are
\* character boundaries: the loop cuts there
RECURSIVE CutsAtBoundaries(_)
CutsAtBoundaries(line) ==
    \/ Len(line) <= MAX_LINE_LENGTH
    \/ /\ is_char_boundary(line, MAX_LINE_LENGTH)
       /\ CutsAtBoundaries(SubSeq(line, MAX_LINE_LENGTH + 1, Len(line)))

ChunksWithinWhenCutsAtBoundaries ==
    (\A i \in 1..Len(marked) : CutsAtBoundaries(marked[i]))
        => ChunksWithinMaxLineLength

\* C9: no chunk boundary falls inside a multi-byte character, the chunks of
\* each line concatenated in output order are that line, and the chunks of
\* a line all precede those of the next line.
ChunksReproduceLines ==
    truncate_pc = "done" =>
        /\ \A i \in 1..Len(truncated) : ValidUtf8(truncated[i])
        /\ Groups(truncated, marked).ok
        /\ Len(Groups(truncated, marked).runs) = Len(marked)

\* two lines were truncated, the first in several chunks, with a multi-byte
\* character in the input across byte MAX_LINE_LENGTH of a line
StraddlingLineTruncated ==
    /\ truncate_pc = "done"
    /\ Len(marked) = 2
    /\ Len(Groups(truncated, marked).runs[1]) >= 2
    /\ Len(Groups(truncated, marked).runs[2]) >= 1
    /\ \E i \in 1..2 :
          /\ Len(marked[i]) > MAX_LINE_LENGTH
          /\ ~is_char_boundary(marked[i], MAX_LINE_LENGTH)

(***************************************************************************)
(* send_to_discord and post_to_webhook: how one delivery attempt ends      *)
(***************************************************************************)
Sources == { "Player", "Server" }

\* config.webhook_url(): empty, not a webhook url, a webhook url
WebhookUrls == { "", "invalid", "valid" }

\* post_to_webhook(ctx, message, url); api tells whether Discord answers
\* the requests, has_avatar whether current_user().avatar_url() is Some
post_to_webhook(source, url, has_avatar, api) ==
    IF url = "invalid" THEN "err"
    ELSE IF api = "down" THEN "err"
    ELSE IF source = "Server" /\ ~has_avatar THEN "panic"
    ELSE "ok"

\* send_to_discord(ctx, config_lock, guild_id, message)
send_to_discord(source, url, has_avatar, api) ==
    IF url # ""
    THEN post_to_webhook(source, url, has_avatar, api)
    ELSE IF api = "down" THEN "err" ELSE "ok"

\* every way a delivery attempt can end
SendOutcomes ==
    { send_to_discord(s, u, a, d) :
        s \in Sources, u \in WebhookUrls, a \in BOOLEAN,
        d \in { "up", "down" } }

(***************************************************************************)
(* Minecraft to Discord: the listener cache_ready spawns and the calls of  *)
(* send_to_discord it makes.  delivery[m] is "accepted" once message m is  *)
(* classified (log tailer) or deserialised (webserver), "sending" while    *)
(* its send_to_discord call runs, "ok", "err" or "panic" once it ended.    *)
(***************************************************************************)
MaxMessages == 4

DeliveryInit ==
    /\ OnlyDelivery
    /\ enable_webserver \in BOOLEAN
    /\ delivery = << >>
    /\ attempts = << >>
    /\ tailer_pc = IF enable_webserver THEN "off" ELSE "next"

\* LogTailer::listen: parse_line returned Some(message)
LogClassified ==
    /\ ~enable_webserver
    /\ tailer_pc = "next"
    /\ Len(delivery) < MaxMessages
    /\ delivery' = Append(delivery, "accepted")
    /\ attempts' = Append(attempts, 0)
    /\ tailer_pc' = "send"
    /\ UNCHANGED enable_webserver
    /\ UNCHANGED exceptDelivery

\* LogTailer::listen: send_to_discord(..., message) is called
LogSend ==
    /\ tailer_pc = "send"
    /\ delivery' = [ delivery EXCEPT ![Len(delivery)] = "sending" ]
    /\ attempts' = [ attempts EXCEPT ![Len(delivery)] = @ + 1 ]
    /\ tailer_pc' = "sending"
    /\ UNCHANGED enable_webserver
    /\ UNCHANGED exceptDelivery

\* LogTailer::listen: the awaited call returns Ok or Err and the loop goes
\* on, or it panics and the task of the loop ends
LogSent ==
    /\ tailer_pc = "sending"
    /\ \E outcome \in SendOutcomes :
          /\ delivery' = [ delivery EXCEPT ![Len(delivery)] = outcome ]
          /\ tailer_pc' = IF outcome = "panic" THEN "crashed" ELSE "next"
    /\ UNCHANGED << enable_webserver, attempts >>
    /\ UNCHANGED exceptDelivery

\* Webserver::listen: warp hands the body of a POST /message to the and_then
\* closure of that request; requests are served independently of each other
PostAccepted ==
    /\ enable_webserver
    /\ Len(delivery) < MaxMessages
    /\ delivery' = Append(delivery, "accepted")
    /\ attempts' = Append(attempts, 0)
    /\ UNCHANGED << enable_webserver, tailer_pc >>
    /\ UNCHANGED exceptDelivery

\* Webserver::listen: the future of request m calls send_to_discord
PostSend ==
    /\ enable_webserver
    /\ \E m \in 1..Len(delivery) :
          /\ delivery[m] = "accepted"
          /\ delivery' = [ delivery EXCEPT ![m] = "sending" ]
          /\ attempts' = [ attempts EXCEPT ![m] = @ + 1 ]
    /\ UNCHANGED << enable_webserver, tailer_pc >>
    /\ UNCHANGED exceptDelivery

\* Webserver::listen: the call of request m returns and the request is
\* answered or rejected, or it panics and the task of that request ends
PostSent ==
    /\ enable_webserver
    /\ \E m \in 1..Len(delivery), outcome \in SendOutcomes :
          /\ delivery[m] = "sending"
          /\ delivery' = [ delivery EXCEPT ![m] = outcome ]
    /\ UNCHANGED << enable_webserver, attempts, tailer_pc >>
    /\ UNCHANGED exceptDelivery

DeliveryNext ==
    \/ LogClassified
    \/ LogSend
    \/ LogSent
    \/ PostAccepted
    \/ PostSend
    \/ PostSent

SpecDelivery == DeliveryInit /\ [][DeliveryNext]_vars

(***************************************************************************)
(* Claims about the delivery to Discord                                    *)
(***************************************************************************)
Started(m) == delivery[m] \in { "sending", "ok", "err", "panic" }

Completed(m) == delivery[m] \in { "ok", "err", "panic" }

\* a later message's attempt has started only when every earlier message's
\* attempt has completed
InOrderOneAtATime ==
    \A m1, m2 \in 1..Len(delivery) :
        (m1 < m2 /\ Started(m2)) => Completed(m1)

\* C10: for any two messages m1 and m2 where m1 was classified, or accepted
\* by the web listener, before m2, the delivery attempt for m1 starts and
\* completes before the attempt for m2 starts; for the log tailer and for
\* the webserver.
SequentialDelivery == InOrderOneAtATime

\* the same for the log tailer alone
LogTailerSequentialDelivery == ~enable_webserver => InOrderOneAtATime

\* the log tailer has delivered one message and is sending the next
LogTailerSendingSecond ==
    /\ ~enable_webserver
    /\ Len(delivery) >= 2
    /\ Completed(1)
    /\ delivery[2] = "sending"

(***************************************************************************)
(* The older Handler::cache_ready: a listener task that sends what it      *)
(* classifies into an mpsc channel, and one consumer task that receives    *)
(* from it and calls send_to_discord                                       *)
(***************************************************************************)
CHANNEL_CAPACITY == 100

MaxClassified == 102

QueueInit ==
    /\ OnlyQueue
    /\ queue = << >>
    /\ closed = FALSE
    /\ classified = 0
    /\ producing = 0
    /\ current = 0
    /\ dequeued = << >>
    /\ consumer_pc = "recv"

\* the listener classifies its next message
ProducerClassify ==
    /\ producing = 0
    /\ classified < MaxClassified
    /\ classified' = classified + 1
    /\ producing' = classified + 1
    /\ UNCHANGED << queue, closed, current, dequeued, consumer_pc >>
    /\ UNCHANGED exceptQueue

\* tx.send(message).await completes: there is room in the channel; while
\* the channel is full the send stays pending
ProducerSend ==
    /\ producing # 0
    /\ ~closed
    /\ Len(queue) < CHANNEL_CAPACITY
    /\ queue' = Append(queue, producing)
    /\ producing' = 0
    /\ UNCHANGED << closed, classified, current, dequeued, consumer_pc >>
    /\ UNCHANGED exceptQueue

\* tx.send(message).await fails: the receiver is gone
ProducerSendClosed ==
    /\ producing # 0
    /\ closed
    /\ producing' = 0
    /\ UNCHANGED << queue, closed, classified, current, dequeued,
                    consumer_pc >>
    /\ UNCHANGED exceptQueue

\* a receive that takes the message after the oldest one out as well
recv_dropping(q) ==
    [ message |-> Head(q),
      rest |-> IF Len(q) >= 2 THEN Tail(Tail(q)) ELSE Tail(q) ]

\* rx.recv().await on a channel that holds a message
recv(q) == [ message |-> Head(q), rest |-> Tail(q) ]

\* while let Some(message) = rx.recv().await
ConsumerRecv ==
    /\ consumer_pc = "recv"
    /\ queue # << >>
    /\ current' = recv(queue).message
    /\ queue' = recv(queue).rest
    /\ dequeued' = Append(dequeued, recv(queue).message)
    /\ consumer_pc' = "send"
    /\ UNCHANGED << closed, classified, producing >>
    /\ UNCHANGED exceptQueue

\* send_to_discord(...).await ends: Ok and Err go back to recv, a panic
\* ends the task, which drops rx and what the channel holds
ConsumerSent ==
    /\ consumer_pc = "send"
    /\ \E outcome \in SendOutcomes :
          IF outcome = "panic"
          THEN /\ consumer_pc' = "crashed"
               /\ closed' = TRUE
               /\ queue' = << >>
               /\ UNCHANGED current
          ELSE /\ consumer_pc' = "recv"
               /\ current' = 0
               /\ UNCHANGED << closed, queue >>
    /\ UNCHANGED << classified, producing, dequeued >>
    /\ UNCHANGED exceptQueue

QueueNext ==
    \/ ProducerClassify
    \/ ProducerSend
    \/ ProducerSendClosed
    \/ ConsumerRecv
    \/ ConsumerSent

\* the runtime polls a task that can go on; a delivery attempt ends
SpecQueue ==
    /\ QueueInit
    /\ [][QueueNext]_vars
    /\ WF_vars(ProducerSend)
    /\ WF_vars(ConsumerRecv)
    /\ WF_vars(ConsumerSent)

(***************************************************************************)
(* Claims about the queue                                                  *)
(***************************************************************************)

\* the message the producer holds, as a sequence
Pending == IF producing = 0 THEN << >> ELSE << producing >>

\* the messages 1..n in the order they were classified
Classified(n) == [ i \in 1..n |-> i ]

\* the channel never holds more than CHANNEL_CAPACITY messages; the
\* messages received are received once each; while the consumer runs, every
\* classified message is received, in the channel or still with the
\* producer, once in all
QueueKeepsEveryMessage ==
    /\ Len(queue) <= CHANNEL_CAPACITY
    /\ dequeued = Classified(Len(dequeued))
    /\ ~closed => dequeued \o queue \o Pending = Classified(classified)

\* the consumer catches up with the producer again and again, unless a
\* delivery attempt ended the consumer task
ConsumerCatchesUp == closed \/ Len(dequeued) = classified

OneAttemptAndLoopContinues ==
    /\ \A m \in 1..Len(delivery) :
          /\ attempts[m] <= 1
          /\ Started(m) => attempts[m] = 1
    /\ tailer_pc # "crashed"

\* the same for the attempts that return Ok or Err: the log tailer is back
\* at its next line
LoopContinuesAfterErr ==
    /\ \A m \in 1..Len(delivery) :
          /\ attempts[m] <= 1
          /\ Started(m) => attempts[m] = 1
    /\ (/\ ~enable_webserver
        /\ Len(delivery) >= 1
        /\ delivery[Len(delivery)] \in { "ok", "err" })
          => tailer_pc = "next"

\* the log tailer attempted a message after a failed attempt
AttemptAfterFailedAttempt ==
    /\ ~enable_webserver
    /\ Len(delivery) >= 2
    /\ delivery[1] = "err"
    /\ Started(2)


----------------------------------------------------------------------------
\* Discord to Minecraft: Handler::message of src/discord/mod.rs

\* str::replace: every non-overlapping occurrence of from, left to right
RECURSIVE Replace(_, _, _)
Replace(s, from, to) ==
    LET i == Find(s, from)
    IN  IF i = -1 THEN s
        ELSE Upto(s, i) \o to \o Replace(From(s, i + Len(from)), from, to)

\* the tellraw templates of the configuration, with the placeholders of the
\* default ones
username_template == "{\"text\":\"<%username%> \"}"

attachment_template == "{\"text\":\"[%num% attachment(s) sent]\",\"value\":\"%url%\"}"

message_template == "{\"text\":\"%content%\"}"

apply_line_template(template, ls) ==
    [ k \in DOMAIN ls |-> Replace(template, "%content%", ls[k]) ]

build_tellraw_command(name, mention, template, content) ==
    LET command == "tellraw @a [" \o template \o ", " \o content \o "]"
        named == Replace(command, "%username%", name)
    IN  Replace(named, "%mention%", "@" \o mention)

\* the lines Handler::message sends for the chunks truncate_lines returned
\* and the attachments of the message
PayloadLines(chunks, attachments) ==
    LET ls == apply_line_template(message_template, chunks)
        line == Replace(Replace(attachment_template, "%num%",
                                ToString(Len(attachments))),
                        "%url%", attachments[1])
    IN  IF attachments # << >> THEN Append(ls, line) ELSE ls

MaxEvents == 2

MaxChunks == 2

RconInit ==
    /\ handlers = << >>
    /\ rcon = << >>
    /\ logged = {}
    /\ OnlyRcon

\* a message event arrives; serenity runs Handler::message for it in a task
\* of its own. A message of another channel, of the bot or of its webhook
\* returns before anything is sent.
MessageEvent ==
    /\ Len(handlers) < MaxEvents
    /\ \E qualifies \in BOOLEAN, n \in 0..MaxChunks,
          attachments \in { << >>, << "http://cdn/a.png" >> } :
          handlers' = Append(handlers,
              [ lines |-> IF qualifies
                          THEN PayloadLines(
                                   [ k \in 1..n |-> "chunk " \o ToString(k) ],
                                   attachments)
                          ELSE << >>,
                i |-> 1,
                conn |-> 0,
                pc |-> IF qualifies THEN "loop" ELSE "returned" ])
    /\ UNCHANGED << rcon, logged >>
    /\ UNCHANGED exceptRcon

\* the next line of the for loop: send_to_minecraft starts to connect
RconConnect(h) ==
    /\ handlers[h].pc = "loop"
    /\ handlers[h].i <= Len(handlers[h].lines)
    /\ rcon' = Append(rcon,
          [ event |-> h,
            command |-> build_tellraw_command("Bob", "Bob#0001",
                            username_template,
                            handlers[h].lines[handlers[h].i]),
            state |-> "connecting" ])
    /\ handlers' = [ handlers EXCEPT ![h].pc = "connect",
                                     ![h].conn = Len(rcon) + 1 ]
    /\ UNCHANGED logged
    /\ UNCHANGED exceptRcon

AfterSendStoppingOnError(i, n, outcome) ==
    IF outcome = "ok" THEN i + 1 ELSE n + 1

\* where the for loop stands after send_to_minecraft returned: an Err is
\* logged and the loop goes on
AfterSend(i, n, outcome) == i + 1

\* connect(...).await? returned
RconConnected(h) ==
    /\ handlers[h].pc = "connect"
    /\ \E outcome \in { "ok", "err" } :
          IF outcome = "ok"
          THEN /\ rcon' = [ rcon EXCEPT ![handlers[h].conn].state = "connected" ]
               /\ handlers' = [ handlers EXCEPT ![h].pc = "cmd" ]
               /\ UNCHANGED logged
          ELSE /\ rcon' = [ rcon EXCEPT ![handlers[h].conn].state = "connect failed" ]
               /\ logged' = logged \cup { handlers[h].conn }
               /\ handlers' = [ handlers EXCEPT
                      ![h].pc = "loop",
                      ![h].i = AfterSend(@, Len(handlers[h].lines), outcome) ]
    /\ UNCHANGED exceptRcon

\* conn.cmd(&command).await? returned; the connection is dropped
RconCommand(h) ==
    /\ handlers[h].pc = "cmd"
    /\ \E outcome \in { "ok", "err" } :
          /\ rcon' = [ rcon EXCEPT ![handlers[h].conn].state =
                          IF outcome = "ok" THEN "sent" ELSE "command failed" ]
          /\ logged' = IF outcome = "ok" THEN logged
                       ELSE logged \cup { handlers[h].conn }
          /\ handlers' = [ handlers EXCEPT
                 ![h].pc = "loop",
                 ![h].i = AfterSend(@, Len(handlers[h].lines), outcome) ]
    /\ UNCHANGED exceptRcon

\* the for loop is over
HandlerReturn(h) ==
    /\ handlers[h].pc = "loop"
    /\ handlers[h].i > Len(handlers[h].lines)
    /\ handlers' = [ handlers EXCEPT ![h].pc = "returned" ]
    /\ UNCHANGED << rcon, logged >>
    /\ UNCHANGED exceptRcon

RconNext ==
    \/ MessageEvent
    \/ \E h \in 1..Len(handlers) : RconConnect(h)
    \/ \E h \in 1..Len(handlers) : RconConnected(h)
    \/ \E h \in 1..Len(handlers) : RconCommand(h)
    \/ \E h \in 1..Len(handlers) : HandlerReturn(h)

SpecRcon == RconInit /\ [][RconNext]_vars

\* the connections Handler::message opened for event h, in order
AttemptsOf(h) == SelectSeq(rcon, LAMBDA a : a.event = h)

Finished(a) == a.state \in { "sent", "connect failed", "command failed" }

CommandFor(line) ==
    build_tellraw_command("Bob", "Bob#0001", username_template, line)

\* C13: a message with payload lines c1..cn gets exactly n connect-and-command
\* attempts, a fresh connection each, in the order c1..cn, attempt i+1 opened
\* only after attempt i finished; a failed attempt is logged, not retried,
\* and the attempts after it are still made, whatever other messages do.
OneRconAttemptPerLine ==
    /\ \A h \in 1..Len(handlers) :
          LET hd == handlers[h]
              made == AttemptsOf(h)
              busy == hd.pc \in { "connect", "cmd" }
          IN  /\ Len(made) = IF busy THEN hd.i ELSE hd.i - 1
              /\ Len(made) <= Len(hd.lines)
              /\ \A k \in 1..Len(made) :
                    /\ made[k].command = CommandFor(hd.lines[k])
                    /\ k < Len(made) => Finished(made[k])
                    /\ k = Len(made) => (Finished(made[k]) <=> ~busy)
              /\ hd.pc = "returned" => Len(made) = Len(hd.lines)
    /\ logged = { c \in 1..Len(rcon) :
                    rcon[c].state \in { "connect failed", "command failed" } }

\* a message of two chunks and an attachment whose first two attempts failed
\* and whose third was sent
SentAfterFailedAttempts ==
    \E h \in 1..Len(handlers) :
        /\ handlers[h].pc = "returned"
        /\ Len(handlers[h].lines) = 3
        /\ Len(AttemptsOf(h)) = 3
        /\ AttemptsOf(h)[1].state = "connect failed"
        /\ AttemptsOf(h)[2].state = "command failed"
        /\ AttemptsOf(h)[3].state = "sent"
        /\ AttemptsOf(h)[3].command =
              "tellraw @a [{\"text\":\"<Bob> \"}, {\"text\":\"[1 attachment(s) sent]\",\"value\":\"http://cdn/a.png\"}]"


----------------------------------------------------------------------------
\* MinecraftMessage::replace_mentions of src/listener/parser.rs

\* the mention the if / else if chain finds for a name, "" when it finds
\* none, in a guild of one member, one role and one channel. member_named
\* accepts a user name with or without its discriminator.
MentionFor(name) ==
    IF name \in { "Bob", "Bob#0001" } THEN "<@100>"
    ELSE IF name = "mods" THEN "<@&200>"
    ELSE IF name = "general" THEN "<#300>"
    ELSE ""

\* the first part of the loop body: the boundary arithmetic on (i, c)
Boundary(st, i, c) ==
    IF ~st.found_start /\ c \in { "@", "#" }
    THEN [ st EXCEPT !.found_start = TRUE, !.start = i ]
    ELSE IF st.found_start /\ c = "#"
    THEN [ st EXCEPT !.end = i + 5 ]
    ELSE IF st.found_start /\ c = " "
    THEN [ st EXCEPT !.end = i ]
    ELSE IF st.found_start /\ Len(st.replaced) = i + 1
    THEN [ st EXCEPT !.end = i + 1 ]
    ELSE st

\* the second part: "Check to see if we have a mention"
CheckMention(st) ==
    IF st.found_start /\ st.end > 0
          /\ st.start <= st.end /\ st.end <= Len(st.replaced)
    THEN LET mention == SubSeq(st.replaced, st.start + 1, st.end)
             found == MentionFor(From(mention, 1))
         IN  IF found # ""
             THEN [ st EXCEPT !.found_start = FALSE, !.start = 0, !.end = 0,
                    !.replaced = Replace(st.replaced, mention, found) ]
             ELSE st
    ELSE st

MaxWords == 3

Words == { "@Bob", "@Bob#0001", "@mods", "#general", "@nobody", "hi" }

RECURSIVE JoinWords(_)
JoinWords(ws) ==
    IF ws = << >> THEN ""
    ELSE IF Len(ws) = 1 THEN ws[1]
    ELSE ws[1] \o " " \o JoinWords(Tail(ws))

MentionsInit ==
    /\ words \in UNION { [ 1..n -> Words ] : n \in 1..MaxWords }
    /\ has_guild \in BOOLEAN
    /\ scan = << >>
    /\ mentioned = ""
    /\ mention_pc = "input"
    /\ OnlyMentions

\* replace_mentions is called: the guild is looked up and the locals are set
ReplaceMentionsCall ==
    /\ mention_pc = "input"
    /\ IF has_guild
       THEN /\ scan' = [ i |-> 0, found_start |-> FALSE, start |-> 0,
                         end |-> 0, replaced |-> JoinWords(words) ]
            /\ mention_pc' = "loop"
            /\ UNCHANGED mentioned
       ELSE /\ mentioned' = "Err(NoGuild)"
            /\ mention_pc' = "done"
            /\ UNCHANGED scan
    /\ UNCHANGED << words, has_guild >>
    /\ UNCHANGED exceptMentions

\* one iteration of the for loop over content.char_indices()
MentionLoop ==
    /\ mention_pc = "loop"
    /\ scan.i < Len(JoinWords(words))
    /\ scan' = [ CheckMention(Boundary(scan, scan.i,
                      SubSeq(JoinWords(words), scan.i + 1, scan.i + 1)))
                 EXCEPT !.i = scan.i + 1 ]
    /\ UNCHANGED << words, has_guild, mentioned, mention_pc >>
    /\ UNCHANGED exceptMentions

\* the loop is over: self.content = replaced
ReplaceMentionsReturn ==
    /\ mention_pc = "loop"
    /\ scan.i >= Len(JoinWords(words))
    /\ mentioned' = scan.replaced
    /\ mention_pc' = "done"
    /\ UNCHANGED << words, has_guild, scan >>
    /\ UNCHANGED exceptMentions

MentionsNext ==
    \/ ReplaceMentionsCall
    \/ MentionLoop
    \/ ReplaceMentionsReturn

SpecMentions == MentionsInit /\ [][MentionsNext]_vars

\* what the token contract makes of one token
TokenReplaced(w) ==
    IF MentionFor(From(w, 1)) # "" THEN MentionFor(From(w, 1)) ELSE w

\* C14: every token "@name" or "#name" whose name is that of a member, role
\* or channel is replaced by the native mention wherever it stands in the
\* content, and every other token is left as it is.
MentionTokensReplaced ==
    (mention_pc = "done" /\ has_guild) =>
        mentioned = JoinWords([ k \in DOMAIN words |-> TokenReplaced(words[k]) ])

\* the same for a content whose only token with a sigil is its first
\* token
FirstTokenReplaced ==
    (/\ mention_pc = "done"
     /\ has_guild
     /\ \A k \in 2..Len(words) : words[k] = "hi") =>
        mentioned = JoinWords([ k \in DOMAIN words |-> TokenReplaced(words[k]) ])

MentionAfterMentionKept ==
    /\ mention_pc = "done"
    /\ has_guild
    /\ words = << "@Bob", "@mods" >>
    /\ mentioned = "<@100> @mods"


----------------------------------------------------------------------------
\* markdown::parse: src/markdown/span and src/markdown/block

\* the character at 0-based offset p of s, "" past the end
At(s, p) == IF p < Len(s) THEN SubSeq(s, p + 1, p + 1) ELSE ""

\* Option<(Span, usize)>
NoSpan == [ some |-> FALSE, span |-> Text(""), consumed |-> 0 ]

SomeSpan(span, consumed) ==
    [ some |-> TRUE, span |-> span, consumed |-> consumed ]

parse_escape_also_tilde(text) ==
    IF At(text, 0) = "\\" /\ At(text, 1) \in { "\\", "*", "_", "~" }
    THEN SomeSpan(Literal(At(text, 1)), 2)
    ELSE NoSpan

\* a backslash and one of the characters parse_escape lists; the backquote
\* it also lists cannot be written in a string of this module and is no
\* character of the texts parsed here
parse_escape(text) ==
    IF At(text, 0) = "\\" /\ At(text, 1) \in { "\\", "*", "_" }
    THEN SomeSpan(Literal(At(text, 1)), 2)
    ELSE NoSpan

\* the capture "text" of the regexes STRONG, STRIKETHROUGH and UNDERLINE: the
\* mark of two characters, lazily one or more characters other than a
\* newline, the mark again, not followed by not_after. "" when the regex
\* does not match; the lazy group stops at the first closing mark that the
\* lookahead accepts.
LazyCapture(text, mark, not_after) ==
    LET ks == { k \in 1..(Len(text) - 4) :
                  /\ SubSeq(text, 3 + k, 4 + k) = mark
                  /\ ~Contains(SubSeq(text, 3, 2 + k), "\n")
                  /\ (not_after = "" \/ At(text, 4 + k) # not_after) }
    IN  IF StartsWith(text, mark) /\ ks # {}
        THEN SubSeq(text, 3, 2 + CHOOSE k \in ks : \A j \in ks : k <= j)
        ELSE ""

\* the EMPHASIS regex, first alternative: _ at a word boundary, then lazily
\* one or more of "__", a backslash and any character, or a character that
\* is neither backslash nor _, then _ at a word boundary. The offset of the
\* closing _ when the group has matched up to offset p, -1 when there is
\* none.
RECURSIVE UnderscoreEnd(_, _, _)
UnderscoreEnd(text, p, iterated) ==
    LET c == At(text, p)
    IN  IF p >= Len(text) THEN -1
        ELSE IF iterated /\ c = "_" /\ ~IsWord(At(text, p + 1)) THEN p
        ELSE IF c = "_"
        THEN IF At(text, p + 1) = "_"
             THEN UnderscoreEnd(text, p + 2, TRUE) ELSE -1
        ELSE IF c = "\\"
        THEN IF p + 1 < Len(text)
             THEN UnderscoreEnd(text, p + 2, TRUE) ELSE -1
        ELSE UnderscoreEnd(text, p + 1, TRUE)

\* second alternative: a star followed by a non-space, then lazily one or
\* more of "**", a backslash and any character, whitespace followed by
\* one of (backslash and any character, a character that is no whitespace,
\* star or backslash, "**"), or a character that is no whitespace, star or
\* backslash, then a star not followed by a star. The offset of the closing
\* star.
RECURSIVE StarEnd(_, _, _)
StarEnd(text, p, iterated) ==
    LET c == At(text, p)
        q == Len(text) - Len(TrimStart(From(text, p)))
        d == At(text, q)
    IN  IF p >= Len(text) THEN -1
        ELSE IF iterated /\ c = "*" /\ At(text, p + 1) # "*" THEN p
        ELSE IF c = "*"
        THEN IF At(text, p + 1) = "*"
             THEN StarEnd(text, p + 2, TRUE) ELSE -1
        ELSE IF c = "\\"
        THEN IF p + 1 < Len(text) THEN StarEnd(text, p + 2, TRUE) ELSE -1
        ELSE IF IsSpace(c)
        THEN IF d = "\\"
             THEN IF q + 1 < Len(text)
                  THEN StarEnd(text, q + 2, TRUE) ELSE -1
             ELSE IF d = "*"
             THEN IF At(text, q + 1) = "*"
                  THEN StarEnd(text, q + 2, TRUE) ELSE -1
             ELSE IF d = "" THEN -1
             ELSE StarEnd(text, q + 1, TRUE)
        ELSE StarEnd(text, p + 1, TRUE)

\* the capture of the EMPHASIS regex, "" when it does not match
EmphasisCapture(text) ==
    LET end == IF At(text, 0) = "_" THEN UnderscoreEnd(text, 1, FALSE)
               ELSE IF At(text, 0) = "*" /\ Len(text) > 1
                       /\ ~IsSpace(At(text, 1))
               THEN StarEnd(text, 1, FALSE)
               ELSE -1
    IN  IF end = -1 THEN "" ELSE SubSeq(text, 2, end)

RECURSIVE parse_spans(_)

parse_strong(text) ==
    LET t == LazyCapture(text, "**", "*")
    IN  IF t # "" THEN SomeSpan(Strong(parse_spans(t)), Len(t) + 4)
        ELSE NoSpan

parse_emphasis(text) ==
    LET t == EmphasisCapture(text)
    IN  IF StartsWith(text, "***") THEN NoSpan
        ELSE IF t # "" THEN SomeSpan(Emphasis(parse_spans(t)), Len(t) + 2)
        ELSE NoSpan

parse_strikethrough(text) ==
    LET t == LazyCapture(text, "~~", "")
    IN  IF t # "" THEN SomeSpan(Strikethrough(parse_spans(t)), Len(t) + 4)
        ELSE NoSpan

parse_underline(text) ==
    LET t == LazyCapture(text, "__", "_")
    IN  IF t # "" THEN SomeSpan(Underline(parse_spans(t)), Len(t) + 4)
        ELSE NoSpan

parse_span_underline_first(text) ==
    IF parse_underline(text).some THEN parse_underline(text)
    ELSE IF parse_escape(text).some THEN parse_escape(text)
    ELSE IF parse_strong(text).some THEN parse_strong(text)
    ELSE IF parse_emphasis(text).some THEN parse_emphasis(text)
    ELSE parse_strikethrough(text)

\* pipe_opt!: the first parser that finds a span
parse_span(text) ==
    IF parse_escape(text).some THEN parse_escape(text)
    ELSE IF parse_strong(text).some THEN parse_strong(text)
    ELSE IF parse_emphasis(text).some THEN parse_emphasis(text)
    ELSE IF parse_strikethrough(text).some THEN parse_strikethrough(text)
    ELSE parse_underline(text)

\* the while loop of parse_spans from index on, and what follows it
RECURSIVE SpansFrom(_, _, _, _)
SpansFrom(text, index, t, tokens) ==
    IF index < Len(text)
    THEN LET found == parse_span(From(text, index))
             left == IF tokens = << >> THEN TrimStart(t) ELSE t
         IN  IF found.some
             THEN SpansFrom(text, index + found.consumed, "",
                      (IF t # "" THEN Append(tokens, Text(left)) ELSE tokens)
                          \o << found.span >>)
             ELSE SpansFrom(text, index + 1, t \o At(text, index), tokens)
    ELSE IF t # ""
    THEN Append(tokens,
             Text(TrimEnd(IF tokens = << >> THEN TrimStart(t) ELSE t)))
    ELSE tokens

parse_spans(text) == SpansFrom(text, 0, "", << >>)


\* str::lines: the lines of a text, without their "\n"; a last empty line is
\* not a line
lines(text) ==
    LET fields == Split(text, "\n")
    IN  IF fields[Len(fields)] = "" THEN SubSeq(fields, 1, Len(fields) - 1)
        ELSE fields

RECURSIVE QuoteFromPrefixedOnly(_, _, _, _)
QuoteFromPrefixedOnly(ls, index, prev_newline, quoted) ==
    IF index >= Len(ls) THEN [ content |-> quoted, index |-> index ]
    ELSE LET line == ls[index + 1]
             start == IF At(line, 0) = ">"
                      THEN IF At(line, 1) = " " THEN 2 ELSE 1
                      ELSE 0
         IN  IF line # "" /\ At(line, 0) # ">"
             THEN [ content |-> quoted, index |-> index ]
             ELSE QuoteFromPrefixedOnly(ls, index + 1, line = "",
                      (IF index > 0 THEN quoted \o "\n" ELSE quoted)
                          \o From(line, start))

\* the for loop of parse_blockquote from line index on: the content
\* collected and the number of lines taken
RECURSIVE QuoteFrom(_, _, _, _)
QuoteFrom(ls, index, prev_newline, quoted) ==
    IF index >= Len(ls) THEN [ content |-> quoted, index |-> index ]
    ELSE LET line == ls[index + 1]
             start == IF At(line, 0) = ">"
                      THEN IF At(line, 1) = " " THEN 2 ELSE 1
                      ELSE 0
         IN  IF prev_newline /\ line # "" /\ At(line, 0) # ">"
             THEN [ content |-> quoted, index |-> index ]
             ELSE QuoteFrom(ls, index + 1, line = "",
                      (IF index > 0 THEN quoted \o "\n" ELSE quoted)
                          \o From(line, start))

RECURSIVE parse_blocks(_)

\* Option<(Block, usize)>: block is the Blockquote found, consumed is 0 for
\* None
parse_blockquote(ls) ==
    LET q == QuoteFrom(ls, 0, FALSE, "")
    IN  IF ls[1] = "" \/ At(ls[1], 0) # ">"
        THEN [ consumed |-> 0, block |-> Blockquote(<< >>) ]
        ELSE [ consumed |-> q.index,
               block |-> Blockquote(parse_blocks(q.content)) ]

\* the while loop of parse_blocks from line index on, and what follows it
RECURSIVE BlocksFrom(_, _, _, _)
BlocksFrom(ls, index, t, blks) ==
    IF index < Len(ls)
    THEN LET found == parse_blockquote(SubSeq(ls, index + 1, Len(ls)))
             line == ls[index + 1]
             ended == line = "" /\ t # << >>
             t1 == IF ended THEN << >> ELSE t
             spans == parse_spans(line)
         IN  IF found.consumed > 0
             THEN BlocksFrom(ls, index + found.consumed, << >>,
                      (IF t # << >> THEN Append(blks, Paragraph(t)) ELSE blks)
                          \o << found.block >>)
             ELSE BlocksFrom(ls, index + 1,
                      (IF t1 # << >> /\ spans # << >>
                       THEN Append(t1, Text("\n")) ELSE t1) \o spans,
                      IF ended THEN Append(blks, Paragraph(t)) ELSE blks)
    ELSE IF t # << >> THEN Append(blks, Paragraph(t))
    ELSE blks

\* markdown::parse hands its text to parse_blocks
parse_blocks(text) == BlocksFrom(lines(text), 0, << >>, << >>)


MaxPieces == 4

\* the pieces the parsed texts are made of: letters, whitespace, the
\* characters that open spans and blocks, and backslash escapes
MdPieces ==
    { "a", " ", "\n", "*", "_", "~", ">", "\\", "\\\\", "\\*", "\\_", "\\~" }

RECURSIVE MdTextsOf(_)
MdTextsOf(n) ==
    IF n = 0 THEN { "" }
    ELSE MdTextsOf(n - 1)
            \cup { t \o p : t \in MdTextsOf(n - 1), p \in MdPieces }

\* the inputs of the tests of src/markdown/mod.rs
MdTests ==
    { "test", "> blockquote", "> *blockquote*", "*em **strong***",
      "**strong *em***", "***em* strong**", "___underline__ em_",
      "_em __underline___", "__underline _em___",
      "__underline ~~strikethrough~~__", "__~~strikethrough~~ underline__",
      "~~strikethrough __underline__~~", "~~__underline__ strikethrough~~",
      "\\*test\\*", "\\*\\*test\\*\\*", "\\_test\\_", "\\_\\_test\\_\\_",
      "\\~\\~test\\~\\~" }

MarkdownInit ==
    /\ md_text \in MdTextsOf(MaxPieces) \cup MdTests
    /\ md_blocks = << >>
    /\ md_mc = ""
    /\ md_pc = "input"
    /\ OnlyMarkdown

MdParse ==
    /\ md_pc = "input"
    /\ md_blocks' = parse_blocks(md_text)
    /\ md_pc' = "parsed"
    /\ UNCHANGED << md_text, md_mc >>
    /\ UNCHANGED exceptMarkdown

MdFormat ==
    /\ md_pc = "parsed"
    /\ md_mc' = to_minecraft_format(md_blocks)
    /\ md_pc' = "done"
    /\ UNCHANGED << md_text, md_blocks >>
    /\ UNCHANGED exceptMarkdown

MarkdownNext ==
    \/ MdParse
    \/ MdFormat

SpecMarkdown == MarkdownInit /\ [][MarkdownNext]_vars

\* the tests of src/markdown/mod.rs but the last assertion of
\* escapes_characters
MdTestsPass ==
    md_pc = "done" =>
        /\ md_text = "test" => md_mc = "test"
        /\ md_text = "> blockquote" => md_mc = "> blockquote"
        /\ md_text = "> *blockquote*" => md_mc = "> &oblockquote&r"
        /\ md_text = "*em **strong***" => md_mc = "&oem &lstrong&r&o&r"
        /\ md_text = "**strong *em***" => md_mc = "&lstrong &oem&r&l&r"
        /\ md_text = "***em* strong**" => md_mc = "&l&oem&r&l strong&r"
        /\ md_text = "___underline__ em_" => md_mc = "&o&nunderline&r&o em&r"
        /\ md_text = "_em __underline___" => md_mc = "&oem &nunderline&r&o&r"
        /\ md_text = "__underline _em___" => md_mc = "&nunderline &oem&r&n&r"
        /\ md_text = "__underline ~~strikethrough~~__"
              => md_mc = "&nunderline &mstrikethrough&r&n&r"
        /\ md_text = "__~~strikethrough~~ underline__"
              => md_mc = "&n&mstrikethrough&r&n underline&r"
        /\ md_text = "~~strikethrough __underline__~~"
              => md_mc = "&mstrikethrough &nunderline&r&m&r"
        /\ md_text = "~~__underline__ strikethrough~~"
              => md_mc = "&m&nunderline&r&m strikethrough&r"
        /\ md_text = "\\*\\*test\\*\\*" => md_mc = "**test**"
        /\ md_text = "\\_test\\_" => md_mc = "_test_"

\* a text made of letters and of backslash escapes of the characters of
\* escapable only
RECURSIVE EscapedText(_, _)
EscapedText(text, escapable) ==
    \/ text = ""
    \/ /\ At(text, 0) \in { "a", "e", "s", "t" }
       /\ EscapedText(From(text, 1), escapable)
    \/ /\ At(text, 0) = "\\"
       /\ At(text, 1) \in escapable
       /\ EscapedText(From(text, 2), escapable)

\* that text with each escape replaced by the character it escapes
RECURSIVE Unescaped(_)
Unescaped(text) ==
    IF text = "" THEN ""
    ELSE IF At(text, 0) = "\\" THEN At(text, 1) \o Unescaped(From(text, 2))
    ELSE At(text, 0) \o Unescaped(From(text, 1))

HasEscape(text) == Contains(text, "\\")

\* C19: a backslash followed by \, *, _ or ~ is taken as two characters and
\* rendered as the second one alone, opening and closing no span, so that
\* "\*test\*" renders as "*test*", "\_\_test\_\_" as "__test__" and
\* "\~\~test\~\~" as "~~test~~".
EscapesRenderLiteral ==
    (md_pc = "done" /\ EscapedText(md_text, { "\\", "*", "_", "~" })) =>
        md_mc = Unescaped(md_text)

\* the same for the characters parse_escape lists
ListedEscapesRenderLiteral ==
    (md_pc = "done" /\ EscapedText(md_text, { "\\", "*", "_" })) =>
        md_mc = Unescaped(md_text)

EscapedUnderscoresRendered ==
    /\ md_pc = "done"
    /\ md_text = "\\_\\_test\\_\\_"
    /\ md_mc = "__test__"

EscapedTildeKeepsBackslash ==
    /\ md_pc = "done"
    /\ md_text = "\\~\\~test\\~\\~"
    /\ md_mc = "\\~\\~test\\~\\~"


\* a Block tree of Paragraphs whose spans are all Text
OnlyTextParagraphs(blks) ==
    \A b \in 1..Len(blks) :
        /\ blks[b].kind = "Paragraph"
        /\ \A k \in 1..Len(blks[b].spans) : blks[b].spans[k].kind = "Text"

\* a text without its leading and trailing spaces and newlines
RECURSIVE Trimmed(_)
Trimmed(text) ==
    IF At(text, 0) \in { " ", "\n" } THEN Trimmed(From(text, 1))
    ELSE IF Len(text) > 0 /\ At(text, Len(text) - 1) \in { " ", "\n" }
    THEN Trimmed(Upto(text, Len(text) - 1))
    ELSE text

\* C20: a text, of one line or of several, whose parse holds only Paragraph
\* blocks and Text spans is rendered as the text itself without its leading
\* and trailing whitespace.
PlainTextRoundTrip ==
    (md_pc = "done" /\ OnlyTextParagraphs(md_blocks)) =>
        md_mc = Trimmed(md_text)

\* the same for the texts of one line
PlainLineRoundTrip ==
    (/\ md_pc = "done"
     /\ OnlyTextParagraphs(md_blocks)
     /\ ~Contains(md_text, "\n")) =>
        md_mc = Trimmed(md_text)

PlainLineRendered ==
    /\ md_pc = "done"
    /\ md_text = " a *"
    /\ md_blocks = << Paragraph(<< Text("a *") >>) >>
    /\ md_mc = "a *"

ParagraphsGlued ==
    /\ md_pc = "done"
    /\ md_text = "a\n\na"
    /\ md_blocks = << Paragraph(<< Text("a") >>), Paragraph(<< Text("a") >>) >>
    /\ md_mc = "aa"


----------------------------------------------------------------------------
\* Handler::message of src/discord/mod.rs: from msg.content to the chunks

\* the mention replacements for a message that mentions the user Bob of
\* id 1, then the escaping of the double quotes
sanitize_message(text) ==
    Replace(Replace(text, "<@!1>", "@Bob"), "\"", "\\\"")

\* the UTF-8 bytes of the characters of the contents and of their renderings
\* ("&" standing for the section sign)
Utf8(c) ==
    CASE c = "&" -> << 194, 167 >>
      [] c = "\"" -> << 34 >>
      [] c = "\\" -> << 92 >>
      [] c = " " -> << 32 >>
      [] c = "*" -> << 42 >>
      [] c = "@" -> << 64 >>
      [] c = "B" -> << 66 >>
      [] c = "a" -> << 97 >>
      [] c = "b" -> << 98 >>
      [] c = "l" -> << 108 >>
      [] c = "o" -> << 111 >>
      [] c = "r" -> << 114 >>

Bytes(s) ==
    LET RECURSIVE From1(_)
        From1(i) == IF i > Len(s) THEN << >>
                    ELSE Utf8(SubSeq(s, i, i)) \o From1(i + 1)
    IN  From1(1)

\* content.split('\n'), each line parsed and rendered, then truncate_lines
content_chunks(text) ==
    LET ls == Split(sanitize_message(text), "\n")
    IN  truncate_lines(
            [ k \in DOMAIN ls |-> Bytes(to_minecraft_format(parse_blocks(ls[k]))) ])

MaxContentPieces == 3

ContentPieces == { "a", " ", "\"", "\\", "*", "\n", "<@!1>" }

RECURSIVE ContentsOf(_)
ContentsOf(n) ==
    IF n = 0 THEN { "" }
    ELSE ContentsOf(n - 1)
            \cup { t \o p : t \in ContentsOf(n - 1), p \in ContentPieces }

TellrawInit ==
    /\ discord_text \in ContentsOf(MaxContentPieces)
    /\ mc_chunks = << >>
    /\ tellraw_pc = "input"
    /\ OnlyTellraw

HandleContent ==
    /\ tellraw_pc = "input"
    /\ mc_chunks' = content_chunks(discord_text)
    /\ tellraw_pc' = "done"
    /\ UNCHANGED discord_text
    /\ UNCHANGED exceptTellraw

SpecTellraw == TellrawInit /\ [][HandleContent]_vars

\* the number of backslashes that end the first n bytes of a chunk
RECURSIVE BackslashesBefore(_, _)
BackslashesBefore(chunk, n) ==
    IF n > 0 /\ chunk[n] = 92 THEN 1 + BackslashesBefore(chunk, n - 1) ELSE 0

\* every double quote of the chunk is escaped and the chunk does not end in
\* a backslash that escapes what follows the chunk
SafeInJson(chunk) ==
    /\ \A i \in 1..Len(chunk) :
          chunk[i] = 34 => BackslashesBefore(chunk, i - 1) % 2 = 1
    /\ BackslashesBefore(chunk, Len(chunk)) % 2 = 0

\* C15: whatever the content of the Discord message, no chunk substituted
\* for %content% holds an unescaped double quote or ends in an unpaired
\* backslash.
ChunksSafeInJson ==
    tellraw_pc = "done" =>
        \A k \in 1..Len(mc_chunks) : SafeInJson(mc_chunks[k])

\* the same for the contents without a backslash none of whose lines is cut
ChunksSafeWithoutBackslash ==
    (/\ tellraw_pc = "done"
     /\ ~Contains(discord_text, "\\")
     /\ \A k \in 1..Len(mc_chunks) : Len(mc_chunks[k]) < MAX_LINE_LENGTH) =>
        \A k \in 1..Len(mc_chunks) : SafeInJson(mc_chunks[k])

QuoteEscaped ==
    /\ tellraw_pc = "done"
    /\ discord_text = "a\"a"
    /\ mc_chunks = << << 97, 92, 34, 97 >> >>

ChunkEndsInBackslash ==
    /\ tellraw_pc = "done"
    /\ discord_text = "a\\"
    /\ mc_chunks = << << 97, 92 >> >>


----------------------------------------------------------------------------
\* MessageParser::try_parse_death with the keywords and phrases of a
\* configuration

\* the contents: a death, a chat-like or a custom-keyword text about a
\* player, alone or after the entity wrapper the server logs for a named
\* mob, followed or not by an item name, an ignore phrase or both
DeathInit ==
    /\ death_line \in
          { wrapper \o subject \o event \o tail :
              wrapper \in { "", "Named entity Zombie['Bobbie'/1, l='world'] died: " },
              subject \in { "Bobbie", "Bob" },
              event \in { " was slain by Zombie", " was killed by magic",
                          " yeeted himself", " says hello" },
              tail \in { "", " using Sword: Excalibur", " test phrase",
                         ". Found that the dragon has been killed in this world already." } }
    /\ ignore_keywords \in { << >>, << "test phrase" >> }
    /\ custom_keywords \in { << >>, << " yeeted" >> }
    /\ death_message = None
    /\ death_pc = "input"
    /\ OnlyDeath

\* try_parse_death of a parser made by MessageParser::new
ParseDeath ==
    /\ death_pc = "input"
    /\ death_message' = try_parse_death(BuiltinIgnorePhrases \o ignore_keywords,
                                        BuiltinDeathKeywords \o custom_keywords,
                                        death_line)
    /\ death_pc' = "done"
    /\ UNCHANGED << death_line, ignore_keywords, custom_keywords >>
    /\ UNCHANGED exceptDeath

SpecDeath == DeathInit /\ [][ParseDeath]_vars

HasIgnorePhrase ==
    \E i \in 1..Len(BuiltinIgnorePhrases \o ignore_keywords) :
        Contains(death_line, (BuiltinIgnorePhrases \o ignore_keywords)[i])

HasDeathKeyword ==
    \E i \in 1..Len(BuiltinDeathKeywords \o custom_keywords) :
        Contains(death_line, (BuiltinDeathKeywords \o custom_keywords)[i])

\* C16: a content that holds an ignore phrase, built-in or custom, gives no
\* message, whatever death keyword it holds and also inside the text of a
\* "Named entity" wrapper.
IgnorePhraseSuppresses ==
    (death_pc = "done" /\ HasIgnorePhrase) => death_message = None

\* a wrapped death text that holds the custom phrase, and one that holds the
\* built-in phrase with its " killed"
IgnoredInsideWrapper ==
    /\ death_pc = "done"
    /\ death_line = "Named entity Zombie['Bobbie'/1, l='world'] died: Bobbie was slain by Zombie test phrase"
    /\ ignore_keywords = << "test phrase" >>
    /\ HasDeathKeyword
    /\ death_message = None

\* the text after the first colon of the content
AfterFirstColon == TrimStart(From(death_line, Find(death_line, ":") + 1))

\* C18: for a content that begins with "Named entity" and holds a colon the
\* result is that of the death classification of the whole text after the
\* first colon: with a death keyword in it, ":skull: " and that whole text.
NamedEntityWholeText ==
    (/\ death_pc = "done"
     /\ StartsWith(death_line, "Named entity")
     /\ Contains(death_line, ":")) =>
        death_message =
            try_parse_death(BuiltinIgnorePhrases \o ignore_keywords,
                            BuiltinDeathKeywords \o custom_keywords,
                            AfterFirstColon)

\* the same when that text holds no other colon
NamedEntityUpToSecondColon ==
    (/\ death_pc = "done"
     /\ StartsWith(death_line, "Named entity")
     /\ Contains(death_line, ":")
     /\ ~Contains(AfterFirstColon, ":")) =>
        death_message =
            try_parse_death(BuiltinIgnorePhrases \o ignore_keywords,
                            BuiltinDeathKeywords \o custom_keywords,
                            AfterFirstColon)

NamedEntityUnwrapped ==
    /\ death_pc = "done"
    /\ death_line = "Named entity Zombie['Bobbie'/1, l='world'] died: Bobbie was slain by Zombie"
    /\ death_message = Some(Msg("", ":skull: Bobbie was slain by Zombie", "Server", ""))

NamedEntityCutAtColon ==
    /\ death_pc = "done"
    /\ death_line = "Named entity Zombie['Bobbie'/1, l='world'] died: Bobbie was slain by Zombie using Sword: Excalibur"
    /\ death_message = Some(Msg("", ":skull: Bobbie was slain by Zombie using Sword", "Server", ""))


----------------------------------------------------------------------------
\* the prefix of a log line (checked under Spec)

\* the line starts with "[", has len bytes or characters and holds a "]: "
Delimited(len) ==
    /\ StartsWith(raw_line, "[")
    /\ len >= 11
    /\ Occurrences(raw_line, "]: ") # {}

\* the text after the first "]: " of the line, without the whitespace
\* around it
AfterDelimiter ==
    LET first == CHOOSE i \in Occurrences(raw_line, "]: ") :
                    \A j \in Occurrences(raw_line, "]: ") : i <= j
    IN  Trim(SubSeq(raw_line, first + 4, Len(raw_line)))

\* a line that is not delimited gives no message and leaves the cache as it
\* was; of any other line the text classified is the text after the first
\* "]: ", trimmed: the result is that of the same text after the usual
\* prefix, and a join, leave, advancement or death message carries that text
PrefixDecides(len) ==
    Parsed =>
        IF ~Delimited(len)
        THEN message = None /\ cached_uuids = cache_before /\ ~asked
        ELSE LET out == parse_line(cache_before, BuiltinIgnorePhrases,
                                   BuiltinDeathKeywords,
                                   GoodPrefix \o AfterDelimiter, chat_regex,
                                   response)
                 said == message.msg.content
             IN  /\ message = out.result
                 /\ cached_uuids = out.cache
                 /\ (message.tag = "Some" /\ message.msg.source = "Server") =>
                       said \in { AfterDelimiter,
                                  ":partying_face: " \o AfterDelimiter,
                                  ":skull: " \o AfterDelimiter,
                                  ":white_check_mark: Server has started",
                                  ":x: Server is shutting down" }

\* C17: a line that does not start with "[", is shorter than 11 characters
\* or holds no "]: " gives no message and leaves the cache as it was; of any
\* other line the text classified is the text after the first "]: ", trimmed.
PrefixDecidesContent == PrefixDecides(Len(raw_line))

\* C17, amended: the same with the length of the line counted in bytes
PrefixDecidesContentInBytes ==
    PrefixDecides(Len(raw_line) + Cardinality(Occurrences(raw_line, "&")))

\* a line of 10 characters discarded, and a message made of the text after
\* the first of two "]: "
ShortLineDiscarded ==
    /\ Parsed
    /\ raw_line = "[]: Done ("
    /\ message = None

\* a line of 10 characters and 11 bytes classified
ShortLineOfElevenBytes ==
    /\ Parsed
    /\ raw_line = "[]: & fell"
    /\ message = Some(Msg("", ":skull: & fell", "Server", ""))

SecondDelimiterKept ==
    /\ Parsed
    /\ raw_line = "[12:32:45] [Server thread/INFO]: [x]: joined the game"
    /\ message = Some(Msg("", "[x]: joined the game", "Server", ""))

----------------------------------------------------------------------------
\* markdown::parse step by step: one step per iteration of the while loops
\* of parse_blocks and of parse_spans on the lines of the text. The calls
\* made inside an iteration (parse_block, parse_span, and through them
\* parse_blocks and parse_spans on a captured text) are evaluated within it.

\* the inputs of the tests of src/markdown/span and src/markdown/block, the
\* lines of a test joined by newlines, and texts with spaces inside a span
ParseTests ==
    { "**this is a** strong string", "**testing** strong** string",
      "** testing string", "**** testing string", "test **test** test",
      "*this is an* italic string", "*testing* italic* string",
      "_this is also_ an italic string", "* testing string",
      "_ testing string", "__ testing string", "test *test* test",
      "test _test_ test", "~~this is a~~ strong string",
      "~~testing~~ strong~~ string", "~~ testing string",
      "~~~~ testing string", "test ~~test~~ test",
      "__this is an__ underlined string", "__testing__ underlined__ strings",
      "____ testing string", "test __test__ test",
      "> One", "> quote\n> another quote",
      "> quote\n> another quote\nblah blah", "> quote\n> more\n\nblah",
      "shouldn't > parse", "first\n> quote\n> another\n\nblah",
      "a ** b ** c", "a\n b " }

\* most pieces of the texts parsed step by step
MaxStepPieces == 3

ParseInit ==
    /\ pb_content \in MdTextsOf(MaxStepPieces) \cup MdTests \cup ParseTests
    /\ pb_lines = lines(pb_content)
    /\ pb_index = 0
    /\ pb_t = << >>
    /\ pb_blocks = << >>
    /\ pb_found = [ lines |-> << >>, consumed |-> 0,
                    block |-> Blockquote(<< >>) ]
    /\ sp_index = 0
    /\ sp_t = ""
    /\ sp_tokens = << >>
    /\ sp_found = [ text |-> "", found |-> NoSpan ]
    /\ parse_pc = "blocks"
    /\ OnlyParse

\* the line parse_blocks is at
PbLine == pb_lines[pb_index + 1]

\* the lines parse_blocks hands to parse_block and what parse_blockquote
\* returns
WithLines(rest, found) ==
    [ lines |-> rest, consumed |-> found.consumed, block |-> found.block ]

TriedBlock(rest) == WithLines(rest, parse_blockquote(rest))

\* an iteration of the while loop of parse_blocks, up to its call of
\* parse_spans when parse_block found no block
ParseBlocksLoop ==
    /\ parse_pc = "blocks"
    /\ pb_index < Len(pb_lines)
    /\ pb_found' = TriedBlock(SubSeq(pb_lines, pb_index + 1, Len(pb_lines)))
    /\ IF pb_found'.consumed > 0
       THEN /\ pb_blocks' =
                 (IF pb_t # << >>
                  THEN Append(pb_blocks, Paragraph(pb_t))
                  ELSE pb_blocks) \o << pb_found'.block >>
            /\ pb_t' = << >>
            /\ pb_index' = pb_index + pb_found'.consumed
            /\ UNCHANGED parse_pc
       ELSE /\ pb_blocks' = IF PbLine = "" /\ pb_t # << >>
                            THEN Append(pb_blocks, Paragraph(pb_t))
                            ELSE pb_blocks
            /\ pb_t' = IF PbLine = "" /\ pb_t # << >> THEN << >> ELSE pb_t
            /\ parse_pc' = "spans"
            /\ UNCHANGED pb_index
    /\ sp_index' = 0
    /\ sp_t' = ""
    /\ sp_tokens' = << >>
    /\ UNCHANGED << pb_content, pb_lines, sp_found >>
    /\ UNCHANGED exceptParse

\* the slice parse_spans hands to parse_span and what parse_span returns
TriedSpan(rest) == [ text |-> rest, found |-> parse_span(rest) ]

ParseSpansLoopStaying ==
    /\ parse_pc = "spans"
    /\ sp_index < Len(PbLine)
    /\ sp_found' = TriedSpan(From(PbLine, sp_index))
    /\ IF sp_found'.found.some
       THEN /\ sp_tokens' =
                 (IF sp_t # ""
                  THEN Append(sp_tokens,
                              Text(IF sp_tokens = << >>
                                   THEN TrimStart(sp_t) ELSE sp_t))
                  ELSE sp_tokens) \o << sp_found'.found.span >>
            /\ sp_t' = ""
            /\ sp_index' = sp_index + sp_found'.found.consumed
       ELSE UNCHANGED << sp_t, sp_index, sp_tokens >>
    /\ UNCHANGED << pb_content, pb_lines, pb_index, pb_t, pb_blocks, pb_found,
                    parse_pc >>
    /\ UNCHANGED exceptParse

\* an iteration of the while loop of parse_spans on that line
ParseSpansLoop ==
    /\ parse_pc = "spans"
    /\ sp_index < Len(PbLine)
    /\ sp_found' = TriedSpan(From(PbLine, sp_index))
    /\ IF sp_found'.found.some
       THEN /\ sp_tokens' =
                 (IF sp_t # ""
                  THEN Append(sp_tokens,
                              Text(IF sp_tokens = << >>
                                   THEN TrimStart(sp_t) ELSE sp_t))
                  ELSE sp_tokens) \o << sp_found'.found.span >>
            /\ sp_t' = ""
            /\ sp_index' = sp_index + sp_found'.found.consumed
       ELSE /\ sp_t' = sp_t \o At(PbLine, sp_index)
            /\ sp_index' = sp_index + 1
            /\ UNCHANGED sp_tokens
    /\ UNCHANGED << pb_content, pb_lines, pb_index, pb_t, pb_blocks, pb_found,
                    parse_pc >>
    /\ UNCHANGED exceptParse

\* parse_spans returns its tokens and the iteration of parse_blocks ends
ParseSpansReturn ==
    /\ parse_pc = "spans"
    /\ sp_index >= Len(PbLine)
    /\ LET left == IF sp_tokens = << >> THEN TrimStart(sp_t) ELSE sp_t
           spans == IF sp_t # "" THEN Append(sp_tokens, Text(TrimEnd(left)))
                    ELSE sp_tokens
       IN  /\ sp_tokens' = spans
           /\ pb_t' = (IF pb_t # << >> /\ spans # << >>
                       THEN Append(pb_t, Text("\n")) ELSE pb_t) \o spans
    /\ pb_index' = pb_index + 1
    /\ parse_pc' = "blocks"
    /\ UNCHANGED << pb_content, pb_lines, pb_blocks, pb_found, sp_index, sp_t,
                    sp_found >>
    /\ UNCHANGED exceptParse

\* parse_blocks pushes the last paragraph and returns
ParseBlocksReturn ==
    /\ parse_pc = "blocks"
    /\ pb_index >= Len(pb_lines)
    /\ pb_blocks' = IF pb_t # << >> THEN Append(pb_blocks, Paragraph(pb_t))
                    ELSE pb_blocks
    /\ parse_pc' = "done"
    /\ UNCHANGED << pb_content, pb_lines, pb_index, pb_t, pb_found, sp_index, sp_t,
                    sp_tokens, sp_found >>
    /\ UNCHANGED exceptParse

ParseNext ==
    \/ ParseBlocksLoop
    \/ ParseSpansLoop
    \/ ParseSpansReturn
    \/ ParseBlocksReturn

SpecParse == ParseInit /\ [][ParseNext]_vars

\* the loops give what parse_blocks gives as a function of the text
ParseStepsAgree == parse_pc = "done" => pb_blocks = parse_blocks(pb_content)


\* the first consumed characters of text are mark, an inner text of one
\* character or more and mark again, and span holds the parse of the inner
\* text
Enclosed(text, consumed, mark, span) ==
    /\ StartsWith(text, mark)
    /\ consumed >= 2 * Len(mark) + 1
    /\ consumed <= Len(text)
    /\ SubSeq(text, consumed - Len(mark) + 1, consumed) = mark
    /\ span.content =
           parse_spans(SubSeq(text, Len(mark) + 1, consumed - Len(mark)))

\* what a matcher found in text is a span of its kind between its delimiters
MatchIsEnclosed(text, r) ==
    r.some =>
        CASE r.span.kind = "Literal" ->
                 /\ r.consumed = 2
                 /\ StartsWith(text, "\\" \o r.span.text)
          [] r.span.kind = "Strong" ->
                 Enclosed(text, r.consumed, "**", r.span)
          [] r.span.kind = "Emphasis" ->
                 /\ ~StartsWith(text, "***")
                 /\ \/ Enclosed(text, r.consumed, "*", r.span)
                    \/ Enclosed(text, r.consumed, "_", r.span)
          [] r.span.kind = "Strikethrough" ->
                 Enclosed(text, r.consumed, "~~", r.span)
          [] r.span.kind = "Underline" ->
                 Enclosed(text, r.consumed, "__", r.span)
          [] OTHER -> FALSE

\* the matchers in the order of the scanner, applied to text
Matchers(text) ==
    << parse_escape(text), parse_strong(text), parse_emphasis(text),
       parse_strikethrough(text), parse_underline(text) >>

MatcherKinds ==
    << "Literal", "Strong", "Emphasis", "Strikethrough", "Underline" >>

\* C21: at every position of a line the scanner takes the first matcher that
\* matches in the order escape, strong, emphasis, strikethrough, underline,
\* and moves on by the opening delimiter, the inner text and the closing
\* delimiter, the span holding the parse of the inner text; a matcher matches
\* only a text that begins with its opening delimiter and holds its closing
\* delimiter, Emphasis never a text that starts with three stars; and
\* "***em* strong**" parses as Strong[Emphasis["em"], " strong"].
ScannerTakesFirstMatcher ==
    LET text == sp_found.text
        found == sp_found.found
        tried == Matchers(text)
    IN  /\ text # "" =>
              /\ \A i \in 1..5 :
                    /\ MatchIsEnclosed(text, tried[i])
                    /\ tried[i].some => tried[i].span.kind = MatcherKinds[i]
              /\ found.some =>
                    \E i \in 1..5 : /\ found = tried[i]
                                    /\ \A j \in 1..(i - 1) : ~tried[j].some
              /\ ~found.some => \A i \in 1..5 : ~tried[i].some
              /\ (parse_pc = "spans" /\ sp_index > 0) =>
                    sp_index = Len(PbLine) - Len(text)
                                  + (IF found.some THEN found.consumed ELSE 1)
        /\ (parse_pc = "done" /\ pb_content = "***em* strong**") =>
              pb_blocks = << Paragraph(<< Strong(<< Emphasis(<< Text("em") >>),
                                                   Text(" strong") >>) >>) >>

\* the scanner at the start of "***em* strong**" took Strong and moved past
\* the closing stars
StrongTakenAtThreeStars ==
    /\ parse_pc = "spans"
    /\ sp_found.text = "***em* strong**"
    /\ sp_found.found.span =
           Strong(<< Emphasis(<< Text("em") >>), Text(" strong") >>)
    /\ sp_index = 15

\* Emphasis taken where Underline matches too
EmphasisTakenBeforeUnderline ==
    /\ parse_pc = "spans"
    /\ sp_found.text = "___underline__ em_"
    /\ sp_found.found.span.kind = "Emphasis"
    /\ parse_underline(sp_found.text).some


\* the number of spaces in a text and in the Text spans of a Span tree
SpacesIn(text) == Cardinality(Occurrences(text, " "))

RECURSIVE SpacesInSpans(_)
SpacesInSpans(elements) ==
    IF elements = << >> THEN 0
    ELSE SpacesIn(Head(elements).text) + SpacesInSpans(Head(elements).content)
            + SpacesInSpans(Tail(elements))

\* the text is one paragraph that starts and ends with a Text span, so that
\* its other spans are not at its edges
TextAtBothEdges ==
    /\ parse_pc = "done"
    /\ Len(pb_blocks) = 1
    /\ pb_blocks[1].kind = "Paragraph"
    /\ LET spans == pb_blocks[1].spans
       IN  /\ Len(spans) >= 2
           /\ spans[1].kind = "Text"
           /\ spans[Len(spans)].kind = "Text"

\* C22: whitespace is trimmed only at the two ends of a paragraph; the
\* whitespace at the start or the end of the inner text of a nested span
\* that is not at the paragraph's edge is kept in the parsed tree and in the
\* rendered output, so every space of the trimmed paragraph is in both.
SpacesInsideParagraphKept ==
    TextAtBothEdges =>
        /\ SpacesInSpans(pb_blocks[1].spans) = SpacesIn(Trim(pb_content))
        /\ SpacesIn(to_minecraft_format(pb_blocks)) = SpacesIn(Trim(pb_content))

\* the spaces around b are inside the stars and are lost
InnerSpacesTrimmed ==
    /\ parse_pc = "done"
    /\ pb_content = "a ** b ** c"
    /\ pb_blocks = << Paragraph(<< Text("a "), Strong(<< Text("b") >>),
                                   Text(" c") >>) >>
    /\ to_minecraft_format(pb_blocks) = "a &lb&r c"

\* the space that ends the first line of a paragraph of two lines is lost
LineEndTrimmed ==
    /\ parse_pc = "done"
    /\ pb_content = "a\n b "
    /\ pb_blocks = << Paragraph(<< Text("a"), Text("\n"), Text("b") >>) >>


\* the 0-based indices of the lines of ls that end a blockquote begun at its
\* first line: not empty, without the prefix, and right after an empty line
QuoteEnds(ls) ==
    { i \in 1..(Len(ls) - 1) :
        /\ ls[i + 1] # ""
        /\ At(ls[i + 1], 0) # ">"
        /\ ls[i] = "" }

\* the lines of ls without their prefix (">" and the space after it), joined
\* by newlines
RECURSIVE Unquoted(_)
Unquoted(ls) ==
    LET line == Head(ls)
        text == IF StartsWith(line, "> ") THEN From(line, 2)
                ELSE IF StartsWith(line, ">") THEN From(line, 1)
                ELSE line
    IN  IF Len(ls) = 1 THEN text ELSE text \o "\n" \o Unquoted(Tail(ls))

\* C23: parse_blockquote returns nothing unless the first line begins with
\* ">"; otherwise it returns a Blockquote and the number of lines consumed,
\* the block ending right before the first line that is not empty, has no
\* prefix and directly follows an empty line, or at the end of the input: an
\* empty line is consumed, and so is a line without prefix right after a
\* quote line.
BlockquoteEndsAfterBlankLine ==
    LET ls == pb_found.lines
        n == pb_found.consumed
    IN  ls # << >> =>
            IF At(ls[1], 0) # ">" THEN n = 0
            ELSE /\ n = IF QuoteEnds(ls) = {} THEN Len(ls)
                        ELSE CHOOSE i \in QuoteEnds(ls) :
                                \A j \in QuoteEnds(ls) : i <= j
                 /\ pb_found.block =
                        Blockquote(parse_blocks(Unquoted(SubSeq(ls, 1, n))))
                 /\ pb_index = Len(pb_lines) - Len(ls) + n

\* the empty line consumed and the block ended before "blah"
BlankLineConsumed ==
    /\ pb_found.lines = << "> quote", "> more", "", "blah" >>
    /\ pb_found.consumed = 3
    /\ pb_index = 3

\* a line without prefix consumed right after a quote line
UnprefixedLineConsumed ==
    /\ pb_found.lines = << "> quote", "> another quote", "blah blah" >>
    /\ pb_found.consumed = 3
    /\ pb_found.block =
           Blockquote(<< Paragraph(<< Text("quote"), Text("\n"),
                                      Text("another quote"), Text("\n"),
                                      Text("blah blah") >>) >>)


\* a scan of the keywords that returns at the first keyword the line holds
RECURSIVE FirstMatchScan(_, _)
FirstMatchScan(keywords, line) ==
    IF keywords = << >> THEN None
    ELSE IF Contains(line, Head(keywords))
    THEN Some(Msg("", ":skull: " \o line, "Server", ""))
    ELSE FirstMatchScan(Tail(keywords), line)

Reversed(s) == [ i \in 1..Len(s) |-> s[Len(s) + 1 - i] ]

\* the death keywords of the parser that the line holds
KeywordsHeld ==
    { i \in 1..Len(BuiltinDeathKeywords \o custom_keywords) :
        Contains(death_line, (BuiltinDeathKeywords \o custom_keywords)[i]) }

\* C24: the death classification of a content without ignore phrase and
\* without the "Named entity" prefix is the Server message ":skull: " and the
\* content when a death keyword, built-in or custom, is in it, and nothing
\* otherwise; the scan that keeps the last match gives what a scan that
\* stops at the first match gives, and what it gives on the list reversed.
DeathResultSameForAnyKeyword ==
    (/\ death_pc = "done"
     /\ ~HasIgnorePhrase
     /\ ~StartsWith(death_line, "Named entity")) =>
        LET keywords == BuiltinDeathKeywords \o custom_keywords
        IN  /\ death_message =
                  IF KeywordsHeld # {}
                  THEN Some(Msg("", ":skull: " \o death_line, "Server", ""))
                  ELSE None
            /\ death_message = FirstMatchScan(keywords, death_line)
            /\ death_message = DeathScan(Reversed(keywords), death_line, None)

\* a content that holds two keywords, " killed" and " magic"
TwoKeywordsOneMessage ==
    /\ death_pc = "done"
    /\ death_line = "Bob was killed by magic"
    /\ Cardinality(KeywordsHeld) >= 2
    /\ death_message = Some(Msg("", ":skull: Bob was killed by magic",
                                "Server", ""))

----------------------------------------------------------------------------
\* format_paragraph step by step: one step per element, call and return of
\* format_spans, with the Vec of open tags the calls share

FormatInit ==
    /\ para_elements \in
          Paragraphs
            \cup { << Strong(<< Emphasis(<< Underline(<< Text("a") >>) >>),
                               Text("") >>),
                      Text("b") >> }
    /\ frames = << [ elements |-> para_elements, ret |-> "", kind |-> "" ] >>
    /\ stack = << >>
    /\ format_pc = "format"
    /\ OnlyFormat

\* the frame of the innermost call of format_spans
TopFrame == frames[Len(frames)]

AfterElementAlwaysPopping(ret, open_tags) ==
    IF open_tags # << >>
    THEN [ ret |-> ret \o Concat(Pop(open_tags)), tags |-> Pop(open_tags) ]
    ELSE [ ret |-> ret, tags |-> open_tags ]

\* the end of an iteration of format_spans: "check if we need to add any
\* open tags"
AfterElement(ret, open_tags) ==
    IF open_tags # << >> /\ EndsWith(ret, RESET_TAG)
    THEN [ ret |-> ret \o Concat(Pop(open_tags)), tags |-> Pop(open_tags) ]
    ELSE [ ret |-> ret, tags |-> open_tags ]

\* an iteration of format_spans on a Literal or a Text
FormatLeaf ==
    /\ format_pc = "format"
    /\ TopFrame.elements # << >>
    /\ Head(TopFrame.elements).kind \in { "Literal", "Text" }
    /\ LET after == AfterElement(TopFrame.ret \o Head(TopFrame.elements).text,
                                 stack)
       IN  /\ frames' = [ frames EXCEPT ![Len(frames)] =
                            [ elements |-> Tail(TopFrame.elements),
                              ret |-> after.ret,
                              kind |-> TopFrame.kind ] ]
           /\ stack' = after.tags
    /\ UNCHANGED << para_elements, format_pc >>
    /\ UNCHANGED exceptFormat

\* to_minecraft of a formatting span: its tag is pushed and format_spans is
\* called on its content
FormatCall ==
    /\ format_pc = "format"
    /\ TopFrame.elements # << >>
    /\ Head(TopFrame.elements).kind \in FormattingKinds
    /\ stack' = Append(stack, TagOf(Head(TopFrame.elements).kind))
    /\ frames' = Append(frames,
                        [ elements |-> Head(TopFrame.elements).content,
                          ret |-> "",
                          kind |-> Head(TopFrame.elements).kind ])
    /\ UNCHANGED << para_elements, format_pc >>
    /\ UNCHANGED exceptFormat

\* that call returns: to_minecraft wraps what it made in the tag and the
\* reset code, and the iteration of the calling format_spans ends
FormatReturn ==
    /\ format_pc = "format"
    /\ TopFrame.elements = << >>
    /\ Len(frames) > 1
    /\ LET caller == frames[Len(frames) - 1]
           next == TagOf(TopFrame.kind) \o TopFrame.ret \o RESET_TAG
           after == AfterElement(caller.ret \o next, stack)
       IN  /\ frames' = [ SubSeq(frames, 1, Len(frames) - 1)
                            EXCEPT ![Len(frames) - 1] =
                              [ elements |-> Tail(caller.elements),
                                ret |-> after.ret,
                                kind |-> caller.kind ] ]
           /\ stack' = after.tags
    /\ UNCHANGED << para_elements, format_pc >>
    /\ UNCHANGED exceptFormat

\* format_paragraph returns
FormatParagraphReturn ==
    /\ format_pc = "format"
    /\ TopFrame.elements = << >>
    /\ Len(frames) = 1
    /\ format_pc' = "done"
    /\ UNCHANGED << para_elements, frames, stack >>
    /\ UNCHANGED exceptFormat

FormatNext ==
    \/ FormatLeaf
    \/ FormatCall
    \/ FormatReturn
    \/ FormatParagraphReturn

SpecFormat == FormatInit /\ [][FormatNext]_vars

\* the steps make the string format_paragraph makes as a function
FormatStepsAgree ==
    format_pc = "done" => frames[1].ret = format_paragraph(para_elements)

\* C25: when no Text or Literal of the paragraph holds a format code, the
\* stack of open tags holds, at every step of the rendering, the tags of the
\* formatting spans being rendered, outermost first, so its depth is the
\* nesting depth and every push is undone by one pop; the stack is empty
\* when the paragraph starts and when format_paragraph returns.
StackHoldsOpenSpans ==
    PlainSpans(para_elements) =>
        /\ stack = [ i \in 1..(Len(frames) - 1) |-> TagOf(frames[i + 1].kind) ]
        /\ format_pc = "done" => stack = << >>
        /\ (Len(frames) = 1 /\ frames[1].elements = para_elements
              /\ frames[1].ret = "") => stack = << >>

\* three formatting spans being rendered, the stack three deep
StackThreeDeep ==
    /\ PlainSpans(para_elements)
    /\ Len(frames) = 4
    /\ stack = << STRONG_TAG, EMPHASIS_TAG, UNDERLINE_TAG >>

\* a paragraph with nested formatting spans rendered, the stack empty again
NestedRenderedStackEmpty ==
    /\ PlainSpans(para_elements)
    /\ para_elements =
           << Strong(<< Emphasis(<< Underline(<< Text("a") >>) >>),
                        Text("") >>),
              Text("b") >>
    /\ format_pc = "done"
    /\ stack = << >>


\* the lines of ls and the newlines between them
RECURSIVE JoinLines(_)
JoinLines(ls) ==
    IF Len(ls) = 1 THEN Head(ls) ELSE Head(ls) \o "\n" \o JoinLines(Tail(ls))

\* what a step of parse does to the indices, and the texts the calls made in
\* the step recurse into
ParseProgress ==
    /\ (parse_pc = "spans" /\ parse_pc' = "spans") =>
          /\ sp_index' > sp_index
          /\ sp_index' <= Len(PbLine)
          /\ sp_found'.found.some =>
                /\ sp_index' = sp_index + sp_found'.found.consumed
                /\ sp_found'.found.span.kind \in FormattingKinds =>
                      \E inner \in 1..(Len(sp_found'.text) - 1) :
                         \E from \in 1..2 :
                            sp_found'.found.span.content =
                               parse_spans(SubSeq(sp_found'.text, from + 1,
                                                  from + inner))
    /\ (parse_pc = "spans" /\ parse_pc' = "blocks") =>
          pb_index' = pb_index + 1
    /\ (parse_pc = "blocks" /\ parse_pc' = "spans") =>
          pb_index' = pb_index
    /\ (parse_pc = "blocks" /\ parse_pc' = "blocks") =>
          /\ pb_index' = pb_index + pb_found'.consumed
          /\ pb_found'.consumed >= 1
          /\ pb_index' <= Len(pb_lines)
          /\ LET taken == SubSeq(pb_found'.lines, 1, pb_found'.consumed)
             IN  /\ Len(Unquoted(taken)) < Len(JoinLines(taken))
                 /\ pb_found'.block = Blockquote(parse_blocks(Unquoted(taken)))

\* the steps parse can still make, at most: for every line left, one step
\* into parse_spans, one per character and one out of it, and the return
RECURSIVE StepsFor(_)
StepsFor(ls) ==
    IF ls = << >> THEN 0 ELSE Len(Head(ls)) + 2 + StepsFor(Tail(ls))

ParseMeasure ==
    LET ls == pb_lines
    IN  CASE parse_pc = "done" -> 0
          [] parse_pc = "blocks" ->
                1 + StepsFor(SubSeq(ls, pb_index + 1, Len(ls)))
          [] parse_pc = "spans" ->
                1 + StepsFor(SubSeq(ls, pb_index + 2, Len(ls)))
                  + (Len(PbLine) - sp_index) + 1

\* C26: parse returns for every text: an iteration of the span scanner
\* moves its index forward by one byte or more, a span matcher recurses into
\* an inner text shorter than its input, an iteration of the block parser
\* takes one line or more, and parse_blockquote recurses into a content
\* shorter than the lines it took; so every step of parse lowers the number
\* of steps it can still make, which is never negative and is 0 only after
\* parse returned.
ParseTerminates ==
    [][/\ ParseProgress
       /\ ParseMeasure' < ParseMeasure
       /\ ParseMeasure' >= 0
       /\ ParseMeasure' = 0 <=> parse_pc' = "done"]_vars

\* a text whose parse recursed into a blockquote and into a span
NestedParseReturned ==
    /\ parse_pc = "done"
    /\ pb_content = "> *blockquote*"
    /\ pb_blocks = << Blockquote(<< Paragraph(<<
                         Emphasis(<< Text("blockquote") >>) >>) >>) >>

----------------------------------------------------------------------------
\* Handler::cache_ready of src/discord/mod.rs: serenity runs the handler of
\* every event as a task of its own, and the handler awaits between its load
\* of is_watching and its swap

MaxReady == 3

WatchInit ==
    /\ is_watching = FALSE
    /\ ready_events = << >>
    /\ listeners = << >>
    /\ OnlyWatch

\* a cache_ready event is dispatched: the handler runs up to its load of
\* is_watching
CacheReady ==
    /\ Len(ready_events) < MaxReady
    /\ ready_events' = Append(ready_events, [ pc |-> "load", loaded |-> FALSE ])
    /\ UNCHANGED << is_watching, listeners >>
    /\ UNCHANGED exceptWatch

\* let loaded = self.is_watching.load(Ordering::Relaxed)
LoadWatching(e) ==
    /\ ready_events[e].pc = "load"
    /\ ready_events' = [ ready_events EXCEPT ![e] =
                           [ pc |-> IF is_watching THEN "swap" ELSE "spawn",
                             loaded |-> is_watching ] ]
    /\ UNCHANGED << is_watching, listeners >>
    /\ UNCHANGED exceptWatch

\* if !loaded: the configuration is read and the webserver or the log tailer
\* is spawned
SpawnListener(e) ==
    /\ ready_events[e].pc = "spawn"
    /\ \E webserver \in BOOLEAN :
          listeners' = Append(listeners,
                              [ event |-> e,
                                kind |-> IF webserver THEN "Webserver"
                                         ELSE "LogTailer" ])
    /\ ready_events' = [ ready_events EXCEPT ![e].pc = "swap" ]
    /\ UNCHANGED is_watching
    /\ UNCHANGED exceptWatch

\* self.is_watching.swap(true, Ordering::Relaxed)
SwapWatching(e) ==
    /\ ready_events[e].pc = "swap"
    /\ is_watching' = TRUE
    /\ ready_events' = [ ready_events EXCEPT ![e].pc = "done" ]
    /\ UNCHANGED listeners
    /\ UNCHANGED exceptWatch

WatchNext ==
    \/ CacheReady
    \/ \E e \in 1..Len(ready_events) :
          \/ LoadWatching(e)
          \/ SpawnListener(e)
          \/ SwapWatching(e)

SpecWatch == WatchInit /\ [][WatchNext]_vars

\* C27: across any number of cache_ready events on one Handler, events
\* handled concurrently included, one listener task at most is ever spawned,
\* and none once is_watching is set.
AtMostOneListener ==
    /\ [](Len(listeners) <= 1)
    /\ [][is_watching => listeners' = listeners]_vars

\* what the load decides: an event that loaded true spawns nothing, and the
\* listeners are those of the events that loaded false
ListenerPerFalseLoad ==
    /\ \A i \in 1..Len(listeners) :
          /\ ~ready_events[listeners[i].event].loaded
          /\ \A j \in 1..Len(listeners) :
                listeners[i].event = listeners[j].event => i = j
    /\ \A e \in 1..Len(ready_events) :
          (ready_events[e].pc = "done" /\ ~ready_events[e].loaded) =>
              \E i \in 1..Len(listeners) : listeners[i].event = e

\* two events loaded false before either swapped, and both spawned
TwoListenersSpawned ==
    /\ Len(listeners) = 2
    /\ listeners[1].event # listeners[2].event

\* an event that came after the swap of another spawned nothing
LaterEventSpawnsNothing ==
    /\ Len(ready_events) = 2
    /\ ready_events[2] = [ pc |-> "done", loaded |-> TRUE ]
    /\ Len(listeners) = 1

----------------------------------------------------------------------------
\* The two directions of the bridge meeting on Discord: send_to_discord of
\* src/listener/mod.rs creates messages, Handler::message of
\* src/discord/mod.rs decides which messages go on to Minecraft

\* the literal head of WEBHOOK_REGEX, whose dots match any character
WEBHOOK_HEAD == "https://discord.com/api/webhooks/"

MatchesHead(url) ==
    /\ Len(url) >= Len(WEBHOOK_HEAD)
    /\ \A i \in 1..Len(WEBHOOK_HEAD) :
          \/ SubSeq(WEBHOOK_HEAD, i, i) = "."
          \/ SubSeq(url, i, i) = SubSeq(WEBHOOK_HEAD, i, i)

DigitValue(c) ==
    CASE c = "0" -> 0 [] c = "1" -> 1 [] c = "2" -> 2 [] c = "3" -> 3
      [] c = "4" -> 4 [] c = "5" -> 5 [] c = "6" -> 6 [] c = "7" -> 7
      [] c = "8" -> 8 [] c = "9" -> 9 [] OTHER -> -1

RECURSIVE DigitsValue(_)
DigitsValue(s) ==
    IF s = "" THEN 0
    ELSE 10 * DigitsValue(Upto(s, Len(s) - 1))
         + DigitValue(SubSeq(s, Len(s), Len(s)))

\* str::parse::<u64>, -1 standing for Err: an optional plus sign and one or
\* more decimal digits; a text of more than 20 digits is beyond u64 (the ids
\* of the model have nine digits at most)
parse_u64(s) ==
    LET digits == IF StartsWith(s, "+") THEN From(s, 1) ELSE s
    IN  IF \/ digits = ""
           \/ Len(digits) > 20
           \/ \E i \in 1..Len(digits) :
                 DigitValue(SubSeq(digits, i, i)) = -1
        THEN -1
        ELSE DigitsValue(digits)

\* split_webhook_url: the id group is greedy, so it runs to the last slash
\* after the head; None when the url does not match or the id is no u64
split_webhook_url(url) ==
    LET rest   == From(url, Len(WEBHOOK_HEAD))
        slashes == Occurrences(rest, "/")
        last   == CHOOSE i \in slashes : \A j \in slashes : j <= i
    IN  IF ~MatchesHead(url) \/ slashes = {}
        THEN [ some |-> FALSE, id |-> 0, token |-> "" ]
        ELSE IF parse_u64(Upto(rest, last)) = -1
             THEN [ some |-> FALSE, id |-> 0, token |-> "" ]
             ELSE [ some |-> TRUE, id |-> parse_u64(Upto(rest, last)),
                    token |-> From(rest, last + 1) ]

\* Option<WebhookId> of a message
NoWebhook == [ some |-> FALSE, id |-> 0 ]

ByWebhook(id) == [ some |-> TRUE, id |-> id ]

\* a filter that tests the channel and the author only
PassesFilterByAuthor(msg, configured_id, bot, webhook_url) ==
    /\ msg.channel_id = configured_id
    /\ msg.author_id # bot.id

\* the two early returns of Handler::message: TRUE when the message goes on
\* to sanitize_message and from there to send_to_minecraft
PassesFilter(msg, configured_id, bot, webhook_url) ==
    LET webhook_id == split_webhook_url(webhook_url).id
    IN  /\ msg.channel_id = configured_id
        /\ ~(\/ msg.author_id = bot.id
             \/ (msg.webhook_id.some /\ msg.webhook_id.id = webhook_id))

MaxPosts == 2

ChannelIds == { 500, 600 }

\* webhook urls a configuration can hold: none, the one of the doc comment
\* of split_webhook_url, the same id written with a zero or a plus sign, an
\* id of zero, and urls the regex or the id parse rejects
EchoUrls ==
    { "",
      "https://discord.com/api/webhooks/12345/67890",
      "https://discord.com/api/webhooks/012345/67890",
      "https://discord.com/api/webhooks/+12345/67890",
      "https://discord.com/api/webhooks/0/67890",
      "https://discord_com/api/webhooks/777/abc",
      "https://discord.com/api/webhooks/abc/67890",
      "https://discord.com/api/webhooks/12345/67890/github",
      "https://discord.com/api/webhooks/12345",
      "https://discordapp.com/api/webhooks/12345/67890" }

EchoInit ==
    /\ cfg_channel_id \in ChannelIds
    /\ cfg_webhook_url \in EchoUrls
    /\ current_user = [ id |-> 1 ]
    /\ discord_msgs = << >>
    /\ OnlyEcho

Created(msg, by) ==
    [ channel_id |-> msg.channel_id, author_id |-> msg.author_id,
      webhook_id |-> msg.webhook_id, by |-> by, handled |-> "dispatched" ]

\* send_to_discord delivers a Minecraft message: through the webhook when
\* webhook_url is not empty (post_to_webhook returns Err for a url that
\* split_webhook_url rejects, WebhookId::new panics on 0, and the request
\* can fail), else by ChannelId::new(id).say as the bot user.  A webhook
\* posts in the channel it was created for, under its own id.
SendToDiscord ==
    /\ Len(discord_msgs) < MaxPosts
    /\ IF cfg_webhook_url # ""
       THEN LET parts == split_webhook_url(cfg_webhook_url)
            IN  \/ /\ parts.some
                   /\ parts.id # 0
                   /\ \E channel \in ChannelIds :
                         discord_msgs' =
                             Append(discord_msgs,
                                    Created([ channel_id |-> channel,
                                              author_id |-> parts.id,
                                              webhook_id |-> ByWebhook(parts.id) ],
                                            "webhook"))
                \/ UNCHANGED discord_msgs
       ELSE \/ discord_msgs' =
                   Append(discord_msgs,
                          Created([ channel_id |-> cfg_channel_id,
                                    author_id |-> current_user.id,
                                    webhook_id |-> NoWebhook ],
                                  "say"))
            \/ UNCHANGED discord_msgs
    /\ UNCHANGED << cfg_channel_id, cfg_webhook_url, current_user >>
    /\ UNCHANGED exceptEcho

\* anyone else creates a message: a user, the bot user answering a command,
\* or a webhook (the configured one used by somebody else included)
OtherPost ==
    /\ Len(discord_msgs) < MaxPosts
    /\ \E channel \in ChannelIds, author \in { 1, 2 }, hook \in { 0, 12345, 777 } :
          discord_msgs' =
              Append(discord_msgs,
                     Created([ channel_id |-> channel,
                               author_id |-> IF hook = 0 THEN author ELSE hook,
                               webhook_id |-> IF hook = 0 THEN NoWebhook
                                              ELSE ByWebhook(hook) ],
                             "other"))
    /\ UNCHANGED << cfg_channel_id, cfg_webhook_url, current_user >>
    /\ UNCHANGED exceptEcho

\* Handler::message on the i-th message: it returns early, or goes on and
\* sends its tellraw commands over RCON
HandleMessage(i) ==
    /\ discord_msgs[i].handled = "dispatched"
    /\ discord_msgs' =
           [ discord_msgs EXCEPT ![i].handled =
                 IF PassesFilter(discord_msgs[i], cfg_channel_id,
                                 current_user, cfg_webhook_url)
                 THEN "relayed" ELSE "skipped" ]
    /\ UNCHANGED << cfg_channel_id, cfg_webhook_url, current_user >>
    /\ UNCHANGED exceptEcho

EchoNext ==
    \/ SendToDiscord
    \/ OtherPost
    \/ \E i \in 1..Len(discord_msgs) : HandleMessage(i)

SpecEcho == EchoInit /\ [][EchoNext]_vars

\* the webhook the configuration names, when it names one
ConfiguredWebhook == split_webhook_url(cfg_webhook_url)

\* C28: a Discord message is relayed to Minecraft only if it was posted in
\* the configured channel, its author is not the bot user and it was not
\* posted by the configured webhook; a message the bridge delivered itself,
\* by channel post or through the configured webhook, is never relayed, so
\* it causes no RCON command.
NoEchoLoop ==
    \A i \in 1..Len(discord_msgs) :
        LET msg == discord_msgs[i]
        IN  /\ msg.handled = "relayed" =>
                  /\ msg.channel_id = cfg_channel_id
                  /\ msg.author_id # current_user.id
                  /\ ~(/\ ConfiguredWebhook.some
                       /\ msg.webhook_id = ByWebhook(ConfiguredWebhook.id))
            /\ msg.by \in { "say", "webhook" } => msg.handled # "relayed"

\* the bridge posted through its webhook into the configured channel and
\* Handler::message skipped the message
OwnWebhookPostSkipped ==
    \E i \in 1..Len(discord_msgs) :
        /\ discord_msgs[i].by = "webhook"
        /\ discord_msgs[i].channel_id = cfg_channel_id
        /\ discord_msgs[i].handled = "skipped"

\* the bridge posted as the bot user and Handler::message skipped the message
OwnChannelPostSkipped ==
    \E i \in 1..Len(discord_msgs) :
        /\ discord_msgs[i].by = "say"
        /\ discord_msgs[i].handled = "skipped"

\* a user's message and a foreign webhook's message are relayed
OthersRelayed ==
    /\ Len(discord_msgs) = 2
    /\ discord_msgs[1].handled = "relayed"
    /\ discord_msgs[2].handled = "relayed"
    /\ ~discord_msgs[1].webhook_id.some
    /\ discord_msgs[2].webhook_id.some

----------------------------------------------------------------------------
\* The cache across the lines of one run of LogTailer::listen: cache_before
\* of a call of parse_line is cached_uuids as the call before left it

\* the player the chat line names
ChatName == Captures(chat_regex, Content).first

\* a chat line was classified under a pattern with both captures
ChatParsed == Parsed /\ HasCaptures /\ Rule = 4

\* after a successful lookup made for the chat line of N the cache maps N to
\* the returned uuid
LookupCachesName ==
    ChatParsed /\ asked /\ response.ok =>
        << ChatName, response.id >> \in cached_uuids

\* a chat line of a cached player is answered from the cache, without a
\* lookup, and leaves the cache as it was
CachedNameServed ==
    ChatParsed /\ ChatName \in Keys(cache_before) =>
        /\ ~asked
        /\ << ChatName, message.msg.uuid >> \in cache_before
        /\ cached_uuids = cache_before

\* the line is "N left the game" or a "UUID of player N is U" line
LeaveOrUuidLineOf(N) ==
    \/ Rule = 5 /\ Contains(Content, "left the game")
                /\ Head(Tokens(Content)) = N
    \/ Rule = 3 /\ Len(Tokens(Content)) >= 6 /\ Tokens(Content)[4] = N

\* the entry of N stays as it is through every line but those of N's leaving
\* and of the server announcing N's uuid
EntryKeptUntilLeave ==
    \A e \in cache_before :
        Parsed /\ message.tag # "Panic" /\ ~LeaveOrUuidLineOf(e[1]) =>
            e \in cached_uuids

\* C29: after a chat line from N caused a successful lookup the cache maps N
\* to the returned uuid, so every later chat line from N, with no "N left
\* the game" line in between, is answered from the cache with that uuid and
\* without another lookup; likewise after a "UUID of player N is U" line
\* every chat line from N carries U until N leaves.
LookupServesLaterChat ==
    /\ LookupCachesName
    /\ CachedNameServed
    /\ EntryKeptUntilLeave

\* what get_player_uuid inserts: the name and the id of the profile returned
LookupCachesProfileName ==
    ChatParsed /\ asked /\ response.ok =>
        cached_uuids = With(cache_before, response.name, response.id)

\* an entry changes otherwise only when a lookup returned a profile of its
\* name
EntryKeptButForProfile ==
    \A e \in cache_before :
        /\ Parsed /\ message.tag # "Panic" /\ ~LeaveOrUuidLineOf(e[1])
        /\ ~(ChatParsed /\ asked /\ response.ok /\ response.name = e[1])
        => e \in cached_uuids

\* the lookup made for bob returned the profile Bob: bob is not cached
LookedUpNameNotCached ==
    /\ ChatParsed /\ asked /\ response.ok
    /\ ChatName = "bob" /\ response.name = "Bob"
    /\ "bob" \notin Keys(cached_uuids)

\* the profile Bob returned for bob replaced the uuid the server announced
\* for Bob
EntryReplacedByLookup ==
    /\ ChatParsed /\ asked /\ response.ok
    /\ ChatName = "bob"
    /\ << "Bob", "id1" >> \in cache_before
    /\ << "Bob", "id2" >> \in cached_uuids

\* a chat line of a cached player was answered from the cache
CachedChatAnswered ==
    /\ ChatParsed /\ ~asked
    /\ ChatName \in Keys(cache_before)

----------------------------------------------------------------------------
\* The placeholders of the tellraw templates: Handler::message of
\* src/discord/mod.rs, from the rendered lines to the commands, for a
\* message without attachment

\* TellrawTemplates::default() of src/config.rs
default_username_template ==
    "{\"color\": \"white\", \"text\": \"<%username%> \", \"clickEvent\":{\"action\":\"suggest_command\", \"value\":\"%mention% \"}}"

default_message_template == "{\"color\":\"white\", \"text\":\"%content%\"}"

MaxTextPieces == 2

\* pieces of a message text and names of an author, with and without the
\* text of a placeholder
TextPieces == { "hi", " ", "%username%", "%mention%", "%content%" }

AuthorNames == { "Bob", "%username%", "%mention%", "%content%" }

RECURSIVE TextsOf(_)
TextsOf(n) ==
    IF n = 0 THEN { "" }
    ELSE TextsOf(n - 1) \cup { t \o p : t \in TextsOf(n - 1), p \in TextPieces }

\* sanitize_message, content.split('\n'), markdown::parse and
\* to_minecraft_format of each line; truncate_lines returns a line of fewer
\* than MAX_LINE_LENGTH bytes as it is
rendered_lines(text) ==
    LET ls == Split(sanitize_message(text), "\n")
    IN  [ k \in DOMAIN ls |-> to_minecraft_format(parse_blocks(ls[k])) ]

TemplateInit ==
    /\ user_text \in TextsOf(MaxTextPieces)
    /\ author_name \in AuthorNames
    /\ author_tag \in { author_name, author_name \o "#0001" }
    /\ templated = << >>
    /\ commands = << >>
    /\ template_pc = "input"
    /\ OnlyTemplate

\* let lines = apply_line_template(get_message_template(), lines)
ApplyLineTemplate ==
    /\ template_pc = "input"
    /\ templated' = apply_line_template(default_message_template,
                                        rendered_lines(user_text))
    /\ template_pc' = "templated"
    /\ UNCHANGED << user_text, author_name, author_tag, commands >>
    /\ UNCHANGED exceptTemplate

\* for line in lines: build_tellraw_command(name, &msg.author.tag(),
\* get_username_template(), &line), handed to send_to_minecraft
BuildCommands ==
    /\ template_pc = "templated"
    /\ commands' = [ k \in DOMAIN templated |->
                       build_tellraw_command(author_name, author_tag,
                                             default_username_template,
                                             templated[k]) ]
    /\ template_pc' = "done"
    /\ UNCHANGED << user_text, author_name, author_tag, templated >>
    /\ UNCHANGED exceptTemplate

TemplateNext ==
    \/ ApplyLineTemplate
    \/ BuildCommands

SpecTemplate == TemplateInit /\ [][TemplateNext]_vars

Placeholders == { "%username%", "%mention%", "%content%" }

\* the value written for a placeholder
ValueOf(p, name, mention, content) ==
    CASE p = "%username%" -> name
      [] p = "%mention%" -> "@" \o mention
      [] OTHER -> content

RECURSIVE FillTemplate(_, _, _, _, _)
\* the template with every placeholder of ps written in it replaced by its
\* value, and the values left as they are
FillTemplate(template, ps, name, mention, content) ==
    LET found == { p \in ps : Find(template, p) # -1 }
        first == CHOOSE p \in found :
                    \A q \in found : Find(template, p) <= Find(template, q)
        at    == Find(template, first)
    IN  IF found = {} THEN template
        ELSE Upto(template, at)
             \o ValueOf(first, name, mention, content)
             \o FillTemplate(From(template, at + Len(first)), ps,
                             name, mention, content)

\* the command in which only the placeholders of the templates were
\* replaced
VerbatimCommand(name, mention, content) ==
    "tellraw @a ["
        \o FillTemplate(default_username_template,
                        { "%username%", "%mention%" }, name, mention, content)
        \o ", "
        \o FillTemplate(default_message_template, Placeholders,
                        name, mention, content)
        \o "]"

\* C30: the substitution acts on the placeholders written in the templates
\* only: the message text is inserted verbatim for %content% and the author
\* name for %username%, and a text or a name that holds "%username%",
\* "%mention%" or "%content%" appears unchanged in the tellraw command.
UserTextInsertedVerbatim ==
    template_pc = "done" =>
        \A k \in DOMAIN commands :
            commands[k] = VerbatimCommand(author_name, author_tag,
                                          rendered_lines(user_text)[k])

\* the same for the texts and the names that hold none of the placeholders
PlainTextInsertedVerbatim ==
    (/\ template_pc = "done"
     /\ \A p \in Placeholders :
           ~Contains(user_text, p) /\ ~Contains(author_name, p)) =>
        \A k \in DOMAIN commands :
            commands[k] = VerbatimCommand(author_name, author_tag,
                                          rendered_lines(user_text)[k])

\* apply_line_template alone leaves a text that holds "%content%" as it is
ContentTextKeptByLineTemplate ==
    template_pc # "input" =>
        \A k \in DOMAIN templated :
            templated[k] = FillTemplate(default_message_template,
                                        { "%content%" }, "", "",
                                        rendered_lines(user_text)[k])

\* Bob wrote "%username%" and the command shows "Bob" in its place
UsernameInTextReplaced ==
    /\ template_pc = "done"
    /\ user_text = "%username%"
    /\ author_name = "Bob"
    /\ commands = << "tellraw @a [{\"color\": \"white\", \"text\": \"<Bob> \", \"clickEvent\":{\"action\":\"suggest_command\", \"value\":\"@Bob#0001 \"}}, {\"color\":\"white\", \"text\":\"Bob\"}]" >>

\* the author is named "%mention%" and the command shows the tag in its place
MentionInNameReplaced ==
    /\ template_pc = "done"
    /\ author_name = "%mention%"
    /\ user_text = "hi"
    /\ \A k \in DOMAIN commands : ~Contains(commands[k], "<%mention%>")

\* a text with "%content%" in it reached the command unchanged
ContentInTextKept ==
    /\ template_pc = "done"
    /\ user_text = "hi%content%"
    /\ author_name = "Bob"
    /\ Len(commands) = 1
    /\ Contains(commands[1], "\"text\":\"hi%content%\"}")

====
